---- MODULE Spec2Model ----
(***************************************************************************)
(* State-machine model of the multi-video-analysis backend: the Video      *)
(* registry, the frame extractor, the CLIP embedding generator and visual  *)
(* search, the transcript / section pipeline and the frame-image endpoint. *)
(* Each action is one call of a service method or one HTTP handler, taken  *)
(* atomically (the handlers are coroutines whose bodies never await, so one *)
(* server process runs them one after the other).  The last two            *)
(* specifications take the requests of two server processes step by step.  *)
(* External tools (yt-dlp, ffmpeg, CLIP, the transcript API, the language  *)
(* model, the database engine) are the environment: their outcomes are the *)
(* parameters of the actions, drawn by the specifications below.           *)
(***************************************************************************)
EXTENDS Integers, Sequences, FiniteSets, TLC

VARIABLES
    videos,     \* Video rows: records [id, url, title]
    frames,     \* Frame rows: records [id, video_id, timestamp, path]
    frameSeq,   \* highest Frame id the database has handed out
    sections,   \* Section rows: records [id, video_id, title, start_time, end_time]
    files,      \* regular files on disk, as absolute component sequences
    dirs,       \* directories the program has created (relative to the working directory)
    artifact,   \* per video id: contents of storage/embeddings/video_<id>/frame_embeddings.pkl
    chroma,     \* per video id: storage/chroma/video_<id> is absent ("none"), an empty
                \* directory ("empty") or a persisted index ("indexed")
    embeddingsFile, \* per video id: the bytes of frame_embeddings.pkl, as a sequence of slots
    inflight,   \* per server process: the request it is in the middle of, if any
    last        \* the call most recently completed: its name, arguments and outcome

vars == <<videos, frames, frameSeq, sections, files, dirs, artifact, chroma,
          embeddingsFile, inflight, last>>

-----------------------------------------------------------------------------
(* Bounds of the model                                                     *)

\* Frame extraction is not started once the database has handed out this many Frame ids.
MaxFrameSeq == 4

\* An upload is not started once this many Section rows exist.
MaxSections == 3

-----------------------------------------------------------------------------
(* Generic helpers                                                         *)

None == "None"

Abs(x) == IF x < 0 THEN 0 - x ELSE x

Max(S) == CHOOSE x \in S : \A y \in S : y <= x

Min(S) == CHOOSE x \in S : \A y \in S : x <= y

Range(s) == {s[i] : i \in 1..Len(s)}

\* str.startswith
StartsWith(s, p) == Len(p) <= Len(s) /\ SubSeq(s, 1, Len(p)) = p

\* Smallest index >= from at which pat occurs in s, 0 when there is none (str.find + 1).
Find(s, pat, from) ==
    LET hits == {i \in from..(Len(s) - Len(pat) + 1) : SubSeq(s, i, i + Len(pat) - 1) = pat}
    IN  IF hits = {} THEN 0 ELSE Min(hits)

\* Python's seq[:limit], negative limits included.
SliceTo(s, limit) ==
    IF limit >= 0
    THEN SubSeq(s, 1, IF limit < Len(s) THEN limit ELSE Len(s))
    ELSE SubSeq(s, 1, IF Len(s) + limit > 0 THEN Len(s) + limit ELSE 0)

\* The elements of s that satisfy keep, in order.
RECURSIVE SelectIdx(_, _)
SelectIdx(s, keep) ==
    IF s = <<>> THEN <<>>
    ELSE IF Len(s) \in keep
         THEN Append(SelectIdx(SubSeq(s, 1, Len(s) - 1), keep), s[Len(s)])
         ELSE SelectIdx(SubSeq(s, 1, Len(s) - 1), keep)

\* s.split(sep) for a one-character separator.
Split(s, sep) ==
    LET cuts == {i \in 1..Len(s) : SubSeq(s, i, i) = sep}
        ends == cuts \cup {Len(s) + 1}
        from(e) == IF {c \in cuts : c < e} = {} THEN 1 ELSE Max({c \in cuts : c < e}) + 1
        RECURSIVE Pieces(_)
        Pieces(E) == IF E = {} THEN <<>>
                     ELSE LET e == Min(E)
                          IN  <<SubSeq(s, from(e), e - 1)>> \o Pieces(E \ {e})
    IN  Pieces(ends)

-----------------------------------------------------------------------------
(* Inputs and environment outcomes the specifications draw from            *)

\* Source URLs: two with a YouTube id, one without.
Urls == {"https://youtu.be/abc123", "https://www.youtube.com/watch?v=xyz789&t=5",
         "https://example.com/clip"}

\* Video ids of requests: 1 and 2 can exist, 3 never does.
VideoIds == {1, 2, 3}

\* Files on the host that the program did not write.
HostFiles == {<<"app", "storage_backup", "dump.jpg">>, <<"app", "secret.env">>,
              <<"etc", "passwd">>}

\* The server processes (workers) that can each be in the middle of a request.
Workers == {1, 2}

\* A server process that is between requests.
Idle ==
    [pc |-> "idle", video_id |-> 0, url |-> "", out |-> <<>>, pos |-> 0, turn |-> 0,
     overlapped |-> FALSE, downloads |-> 0, data |-> <<>>]

-----------------------------------------------------------------------------
(* Video registry: services/video_service.py                               *)

\* The longest run of characters outside & \n ? # that starts at index i.
RECURSIVE GroupFrom(_, _)
GroupFrom(s, i) ==
    IF i > Len(s) \/ SubSeq(s, i, i) \in {"&", "\n", "?", "#"}
    THEN ""
    ELSE SubSeq(s, i, i) \o GroupFrom(s, i + 1)

\* First pattern: (?:youtube\.com/watch\?v=|youtu\.be/|youtube\.com/embed/)([^&\n?#]+)
\* re.search takes the leftmost position at which the whole pattern matches.
Pattern1(url) ==
    LET heads == {"youtube.com/watch?v=", "youtu.be/", "youtube.com/embed/"}
        at    == {i \in 1..Len(url) :
                    \E h \in heads :
                       /\ i + Len(h) - 1 <= Len(url)
                       /\ SubSeq(url, i, i + Len(h) - 1) = h
                       /\ GroupFrom(url, i + Len(h)) # ""}
    IN  IF at = {} THEN None
        ELSE LET i == Min(at)
                 h == CHOOSE h \in heads :
                        /\ i + Len(h) - 1 <= Len(url)
                        /\ SubSeq(url, i, i + Len(h) - 1) = h
                        /\ GroupFrom(url, i + Len(h)) # ""
             IN  GroupFrom(url, i + Len(h))

\* Second pattern: youtube\.com/.*[?&]v=([^&\n?#]+); the greedy .* stays on one line
\* and takes the last [?&]v= that is followed by a non-empty group.
Pattern2(url) ==
    LET head == Find(url, "youtube.com/", 1)
        nl   == IF head = 0 THEN 0 ELSE Find(url, "\n", head)
        stop == IF nl = 0 THEN Len(url) ELSE nl - 1
        at   == IF head = 0 THEN {}
                ELSE {i \in (head + Len("youtube.com/"))..(stop - 2) :
                        /\ SubSeq(url, i, i + 2) \in {"?v=", "&v="}
                        /\ GroupFrom(url, i + 3) # ""}
    IN  IF at = {} THEN None ELSE GroupFrom(url, Max(at) + 3)

\* extract_video_id: the YouTube id, or None where the code raises ValueError.
ExtractVideoId(url) ==
    IF Pattern1(url) # None THEN Pattern1(url) ELSE Pattern2(url)

\* extract_video_id on the URLs of the model, computed once.
YouTubeId == [u \in Urls |-> ExtractVideoId(u)]

\* db.query(Video).filter(Video.url == url).first()
VideoByUrl(url) == {v \in videos : v.url = url}

\* db.query(Video).filter(Video.id == id).first()
VideoById(id) == {v \in videos : v.id = id}

\* db.add(video); db.commit(): the url column is unique, the id is the next integer
\* (Video rows are never deleted).  Result: [ok, rows, row].
InsertVideo(rows, url, title) ==
    IF \E v \in rows : v.url = url
    THEN [ok |-> FALSE, rows |-> rows, row |-> None]
    ELSE LET row == [id |-> Cardinality(rows) + 1, url |-> url, title |-> title]
         IN  [ok |-> TRUE, rows |-> rows \cup {row}, row |-> row]

\* A create_video that registers a URL whether or not it holds a video id.
CreateVideoAnyUrl(url) ==
    IF VideoByUrl(url) # {}
    THEN [raised |-> FALSE, rows |-> videos,
          ret |-> CHOOSE v \in VideoByUrl(url) : TRUE, inserted |-> FALSE]
    ELSE LET ins == InsertVideo(videos, url, "Video unknown")
         IN  [raised |-> ~ins.ok, rows |-> ins.rows, ret |-> ins.row, inserted |-> ins.ok]

\* A create_video that skips the lookup of an existing row.
CreateVideoNoLookup(url) ==
    IF YouTubeId[url] = None
    THEN [raised |-> TRUE, rows |-> videos, ret |-> None, inserted |-> FALSE]
    ELSE LET ins == InsertVideo(videos, url, "Video " \o YouTubeId[url])
         IN  [raised |-> ~ins.ok, rows |-> ins.rows, ret |-> ins.row, inserted |-> ins.ok]

\* VideoService.create_video(url): [raised, rows, ret, inserted].
CreateVideo(url) ==
    IF YouTubeId[url] = None
    THEN [raised |-> TRUE, rows |-> videos, ret |-> None, inserted |-> FALSE]
    ELSE IF VideoByUrl(url) # {}
         THEN [raised |-> FALSE, rows |-> videos,
               ret |-> CHOOSE v \in VideoByUrl(url) : TRUE, inserted |-> FALSE]
         ELSE LET ins == InsertVideo(videos, url, "Video " \o YouTubeId[url])
              IN  [raised |-> ~ins.ok, rows |-> ins.rows, ret |-> ins.row,
                   inserted |-> ins.ok]

\* A direct call of VideoService.create_video.
CreateVideoCall(url) ==
    LET r == CreateVideo(url)
    IN  /\ videos' = r.rows
        /\ last' = [op |-> "create_video", url |-> url, raised |-> r.raised,
                    ret |-> r.ret, inserted |-> r.inserted,
                    existed |-> VideoByUrl(url) # {}]
        /\ UNCHANGED <<frames, frameSeq, sections, files, dirs, artifact, chroma,
                       embeddingsFile, inflight>>

-----------------------------------------------------------------------------
(* File system                                                             *)

\* The working directory of the server process.
Cwd == <<"app">>

\* os.path.exists(path) for a path relative to the working directory.
Exists(fs, path) == (Cwd \o path) \in fs

-----------------------------------------------------------------------------
(* Frame extractor: services/frame_extractor.py, services/frame_service.py *)

\* interval=10 passed by FrameService.extract_frames
Interval == 10

\* f"{frame_count:06d}"
Pad6(n) ==
    LET s == ToString(n)
    IN  SubSeq("000000", 1, IF Len(s) < 6 THEN 6 - Len(s) ELSE 0) \o s

\* self.frames_dir / str(video_id)
VideoFramesDir(v) == <<"storage", "frames", ToString(v)>>

\* video_frames_dir / f"frame_{frame_count:06d}_{timestamp:.2f}s.jpg" (integer timestamps)
FramePath(v, count, ts) ==
    VideoFramesDir(v) \o <<"frame_" \o Pad6(count) \o "_" \o ToString(ts) \o ".00s.jpg">>

\* os.path.join(output_path, f'video_{video_id}.{ext}') under storage/temp
TempVideoPath(url) == <<"storage", "temp", "video_" \o YouTubeId[url] \o ".mp4">>

\* What an interrupted yt-dlp download leaves behind.
PartialVideoPath(url) ==
    <<"storage", "temp", "video_" \o YouTubeId[url] \o ".mp4.part">>

\* db.query(Frame).filter(Frame.video_id == video_id).all()
FramesOf(rows, v) == {f \in rows : f.video_id = v}

\* Number of passes of "while current_time < duration" with current_time = 0, i, 2i, ...
NumAttempts(duration, interval) ==
    IF duration <= 0 THEN 0 ELSE (duration + interval - 1) \div interval

\* An extract_frames_from_video that pairs the kept paths with the timestamps of the
\* first attempts instead of their own.
ExtractFramesFromVideoFirstTimestamps(v, interval, e) ==
    LET n       == NumAttempts(e.duration, interval)
        raises  == {k \in 1..n : e.out[k] = "raise"}
        made    == IF ~e.probeOk THEN 0 ELSE IF raises = {} THEN n ELSE Min(raises)
        ts(k)   == (k - 1) * interval
        path(k) == FramePath(v, k - 1, ts(k))
        written == {Cwd \o path(k) : k \in {j \in 1..made : e.out[j] = "file"}}
        fs2     == files \cup written
        kept    == {k \in 1..made : (Cwd \o path(k)) \in fs2}
        paths   == SelectIdx([k \in 1..made |-> path(k)], kept)
    IN  [raised   |-> ~e.probeOk \/ raises # {},
         files    |-> fs2,
         dirs     |-> dirs \cup {VideoFramesDir(v)},
         data     |-> IF ~e.probeOk \/ raises # {} THEN <<>>
                      ELSE [k \in 1..Len(paths) |-> <<paths[k], ts(k)>>],
         attempts |-> [k \in 1..made |-> ts(k)],
         written  |-> written]

\* extract_frames_from_video(video_path, video_id, interval); e is what ffmpeg does: e.probeOk, e.duration, and e.out[k] \in {"file", "nofile", "raise"} for the
\* k-th run.  Result: [raised, files, dirs, data, attempts, written], data the
\* (path, timestamp) list, written the image files the ffmpeg runs of this call wrote.
ExtractFramesFromVideo(v, interval, e) ==
    LET n       == NumAttempts(e.duration, interval)
        raises  == {k \in 1..n : e.out[k] = "raise"}
        made    == IF ~e.probeOk THEN 0 ELSE IF raises = {} THEN n ELSE Min(raises)
        ts(k)   == (k - 1) * interval
        path(k) == FramePath(v, k - 1, ts(k))
        written == {Cwd \o path(k) : k \in {j \in 1..made : e.out[j] = "file"}}
        fs2     == files \cup written
        kept    == {k \in 1..made : (Cwd \o path(k)) \in fs2}
        all     == [k \in 1..made |-> <<path(k), ts(k)>>]
    IN  [raised   |-> ~e.probeOk \/ raises # {},
         files    |-> fs2,
         dirs     |-> dirs \cup {VideoFramesDir(v)},
         data     |-> IF ~e.probeOk \/ raises # {} THEN <<>> ELSE SelectIdx(all, kept),
         attempts |-> [k \in 1..made |-> ts(k)],
         written  |-> written]

\* save_frame_records(video_id, frame_data): one Frame row per pair, ids in list order
\* (ids are not handed out twice), one commit.  Result: [rows, seq, ret].
SaveFrameRecords(rows, seq, v, data) ==
    LET new == {[id |-> seq + k, video_id |-> v, timestamp |-> data[k][2],
                 path |-> data[k][1]] : k \in 1..Len(data)}
    IN  [rows |-> rows \cup new, seq |-> seq + Len(data), ret |-> new]

\* A pipeline that returns an empty list where a step failed instead of raising.
DownloadExtractSaveQuiet(v, url, interval, e) ==
    IF e.dl # "ok"
    THEN [raised |-> FALSE, shortcut |-> FALSE, rows |-> frames, seq |-> frameSeq,
          files |-> IF e.dl = "partial" THEN files \cup {Cwd \o PartialVideoPath(url)}
                    ELSE files,
          dirs |-> dirs, ret |-> {}, downloads |-> 1, attempts |-> <<>>, written |-> {}]
    ELSE LET x == ExtractFramesFromVideo(v, interval, e)
             s == SaveFrameRecords(frames, frameSeq, v, x.data)
             failed == x.raised \/ e.save # "ok"
         IN  [raised |-> FALSE, shortcut |-> FALSE,
              rows |-> IF failed THEN frames ELSE s.rows,
              seq |-> IF failed THEN frameSeq ELSE s.seq,
              files |-> x.files \ {Cwd \o TempVideoPath(url)},
              dirs |-> x.dirs,
              ret |-> IF failed THEN {} ELSE s.ret,
              downloads |-> 1, attempts |-> x.attempts, written |-> x.written]

\* process_video_frames after its check for existing frames: download, extraction, save,
\* and the finally clause, which removes the downloaded file (so it is in no result).
\* e also gives e.dl \in {"ok", "fail", "partial"} (yt-dlp) and e.save \in {"ok", "fail"}
\* (the commit).
DownloadExtractSave(v, url, interval, e) ==
    IF e.dl # "ok"
    THEN [raised |-> TRUE, shortcut |-> FALSE, rows |-> frames, seq |-> frameSeq,
          files |-> IF e.dl = "partial" THEN files \cup {Cwd \o PartialVideoPath(url)}
                    ELSE files,
          dirs |-> dirs, ret |-> {}, downloads |-> 1, attempts |-> <<>>, written |-> {}]
    ELSE LET x == ExtractFramesFromVideo(v, interval, e)
             s == SaveFrameRecords(frames, frameSeq, v, x.data)
             failed == x.raised \/ e.save # "ok"
         IN  [raised |-> failed, shortcut |-> FALSE,
              rows |-> IF failed THEN frames ELSE s.rows,
              seq |-> IF failed THEN frameSeq ELSE s.seq,
              files |-> x.files \ {Cwd \o TempVideoPath(url)},
              dirs |-> x.dirs,
              ret |-> IF failed THEN {} ELSE s.ret,
              downloads |-> 1, attempts |-> x.attempts, written |-> x.written]

\* A process_video_frames without the check for existing frames.
ProcessVideoFramesNoCheck(v, url, interval, e) == DownloadExtractSave(v, url, interval, e)

\* process_video_frames(video_id, video_url, interval).
\* Result: [raised, shortcut, rows, seq, files, dirs, ret, downloads, attempts, written].
ProcessVideoFrames(v, url, interval, e) ==
    IF FramesOf(frames, v) # {}
    THEN [raised |-> FALSE, shortcut |-> TRUE, rows |-> frames, seq |-> frameSeq,
          files |-> files, dirs |-> dirs, ret |-> FramesOf(frames, v), downloads |-> 0,
          attempts |-> <<>>, written |-> {}]
    ELSE DownloadExtractSave(v, url, interval, e)

\* The files of the scratch directory storage/temp among fs.
ScratchFiles(fs) ==
    {p \in fs : Len(p) > Len(Cwd) + 2
                 /\ SubSeq(p, 1, Len(Cwd) + 2) = Cwd \o <<"storage", "temp">>}

\* The step of process_video_frames at which the tools described by e make it fail:
\* the download, the probe, an ffmpeg run, the commit, or none.
EnvFailure(e) ==
    IF e.dl # "ok" THEN "download"
    ELSE IF ~e.probeOk THEN "probe"
    ELSE IF \E k \in 1..Len(e.out) : e.out[k] = "raise" THEN "ffmpeg"
    ELSE IF e.save # "ok" THEN "save"
    ELSE "none"

\* POST /videos/{video_id}/extract-frames -> FrameService.extract_frames(video_id).
\* The handler returns the service's dict as it is, so the answer is always HTTP 200.
ExtractFrames(v, e) ==
    /\ frameSeq < MaxFrameSeq
    /\ Len(e.out) = NumAttempts(e.duration, Interval)
    /\ IF VideoById(v) = {}
       THEN /\ last' = [op |-> "extract_frames", video_id |-> v, found |-> FALSE,
                        http |-> 200, error |-> "Video not found", status |-> None,
                        extracted_count |-> 0, raised |-> FALSE, shortcut |-> FALSE,
                        ret |-> {}, downloads |-> 0, attempts |-> <<>>,
                        interval |-> Interval, duration |-> e.duration,
                        failure |-> EnvFailure(e), written |-> {}, leftover |-> {}]
            /\ UNCHANGED <<frames, frameSeq, files, dirs>>
       ELSE LET video == CHOOSE x \in VideoById(v) : TRUE
                r     == ProcessVideoFrames(v, video.url, Interval, e)
            IN  /\ frames' = r.rows
                /\ frameSeq' = r.seq
                /\ files' = r.files
                /\ dirs' = r.dirs
                /\ last' = [op |-> "extract_frames", video_id |-> v, found |-> TRUE,
                            http |-> 200, error |-> None,
                            status |-> IF r.raised THEN "error" ELSE "success",
                            extracted_count |-> IF r.raised THEN 0
                                                ELSE Cardinality(r.ret),
                            raised |-> r.raised, shortcut |-> r.shortcut,
                            ret |-> r.ret, downloads |-> r.downloads,
                            attempts |-> r.attempts, interval |-> Interval,
                            duration |-> e.duration, failure |-> EnvFailure(e),
                            written |-> r.written,
                            leftover |-> ScratchFiles(r.files) \ ScratchFiles(files)]
    /\ UNCHANGED <<videos, sections, artifact, chroma, embeddingsFile, inflight>>

\* A direct call of FrameExtractorService.process_video_frames with its own interval.
ProcessVideoFramesCall(v, url, interval, e) ==
    /\ frameSeq < MaxFrameSeq
    /\ Len(e.out) = NumAttempts(e.duration, interval)
    /\ LET r == ProcessVideoFrames(v, url, interval, e)
       IN  /\ frames' = r.rows
           /\ frameSeq' = r.seq
           /\ files' = r.files
           /\ dirs' = r.dirs
           /\ last' = [op |-> "process_video_frames", video_id |-> v,
                       raised |-> r.raised, shortcut |-> r.shortcut, ret |-> r.ret,
                       downloads |-> r.downloads, attempts |-> r.attempts,
                       interval |-> interval, duration |-> e.duration,
                       failure |-> EnvFailure(e), written |-> r.written,
                       leftover |-> ScratchFiles(r.files) \ ScratchFiles(files)]
    /\ UNCHANGED <<videos, sections, artifact, chroma, embeddingsFile, inflight>>

\* A lookup that forgets the video filter.
FrameByTimestampAnyVideo(rows, v, t, w) ==
    LET inWindow == {f \in rows : /\ f.timestamp >= t - w
                                  /\ f.timestamp <= t + w}
        least    == {f \in inWindow :
                        \A g \in inWindow : Abs(f.timestamp - t) <= Abs(g.timestamp - t)}
    IN  {f \in least : \A g \in least : f.timestamp <= g.timestamp}

\* get_frame_by_timestamp(video_id, timestamp, tolerance): the rows in the window,
\* ordered by timestamp; min() keeps the first row of least distance.
FrameByTimestamp(rows, v, t, w) ==
    LET inWindow == {f \in rows : /\ f.video_id = v
                                  /\ f.timestamp >= t - w
                                  /\ f.timestamp <= t + w}
        least    == {f \in inWindow :
                        \A g \in inWindow : Abs(f.timestamp - t) <= Abs(g.timestamp - t)}
    IN  {f \in least : \A g \in least : f.timestamp <= g.timestamp}

\* A direct call of FrameExtractorService.get_frame_by_timestamp.
GetFrameByTimestampCall(v, t, w) ==
    /\ \/ /\ FrameByTimestamp(frames, v, t, w) = {}
          /\ last' = [op |-> "get_frame_by_timestamp", video_id |-> v, timestamp |-> t,
                      tolerance |-> w, found |-> FALSE, ret |-> None]
       \/ \E f \in FrameByTimestamp(frames, v, t, w) :
             last' = [op |-> "get_frame_by_timestamp", video_id |-> v, timestamp |-> t,
                      tolerance |-> w, found |-> TRUE, ret |-> f]
    /\ UNCHANGED <<videos, frames, frameSeq, sections, files, dirs, artifact, chroma,
                   embeddingsFile, inflight>>

\* A cleanup that removes the per-video directory without looking into it.
CleanupVideoFramesCallAlwaysRmdir(v) ==
    LET mine  == FramesOf(frames, v)
        fs2   == files \ {Cwd \o f.path : f \in mine}
        dir   == VideoFramesDir(v)
    IN  /\ frames' = frames \ mine
        /\ files' = fs2
        /\ dirs' = dirs \ {dir}
        /\ last' = [op |-> "cleanup_video_frames", video_id |-> v, removed |-> mine]
        /\ UNCHANGED <<videos, frameSeq, sections, artifact, chroma,
                       embeddingsFile, inflight>>

\* cleanup_video_frames(video_id): removes each row's file and the row, then the
\* per-video directory when nothing is left in it.
CleanupVideoFramesCall(v) ==
    LET mine  == FramesOf(frames, v)
        fs2   == files \ {Cwd \o f.path : f \in mine}
        dir   == VideoFramesDir(v)
        empty == ~\E p \in fs2 : Len(p) > Len(Cwd \o dir)
                                 /\ SubSeq(p, 1, Len(Cwd \o dir)) = Cwd \o dir
    IN  /\ frames' = frames \ mine
        /\ files' = fs2
        /\ dirs' = IF dir \in dirs /\ empty THEN dirs \ {dir} ELSE dirs
        /\ last' = [op |-> "cleanup_video_frames", video_id |-> v, removed |-> mine]
        /\ UNCHANGED <<videos, frameSeq, sections, artifact, chroma,
                       embeddingsFile, inflight>>

-----------------------------------------------------------------------------
(* Embedding generator and visual search: services/simple_embeddings.py    *)

\* Unit vectors standing for CLIP embeddings (normalised, as the code normalises them).
Vecs == {<<1, 0>>, <<0, 1>>, <<-1, 0>>}

\* encode_text of the queries of the model.
TextEmbedding(query) == IF query = "a red car" THEN <<1, 0>> ELSE <<0, 1>>

\* torch.cosine_similarity of two unit vectors.
CosineSimilarity(a, b) == a[1] * b[1] + a[2] * b[2]

\* Path(f"storage/embeddings/video_{video_id}")
EmbeddingsDir(v) == <<"storage", "embeddings", "video_" \o ToString(v)>>

\* The entries a readable artifact holds (none when there is no file).
ArtifactEntries(v) == IF artifact[v].state = "ok" THEN artifact[v].data ELSE <<>>

\* The slots of a pickled list of entries: one slot per entry, then the STOP opcode.  A
\* slot that no write has filled is a hole.
EntrySlot(x) ==
    [kind |-> "entry", frame_id |-> x.frame_id, timestamp |-> x.timestamp,
     embedding |-> x.embedding]

StopSlot == [kind |-> "stop", frame_id |-> 0, timestamp |-> 0, embedding |-> <<0, 0>>]

HoleSlot == [kind |-> "hole", frame_id |-> 0, timestamp |-> 0, embedding |-> <<0, 0>>]

\* pickle.dump(embeddings, f): the stream written for a list of entries.
PickleStream(entries) ==
    [i \in 1..(Len(entries) + 1) |->
        IF i <= Len(entries) THEN EntrySlot(entries[i]) ELSE StopSlot]

\* pickle.load(f) as search_visual_content sees it: no file, the list up to the first
\* STOP, or a failure when a hole or the end of the file comes first.
LoadPickle(file) ==
    LET stops == {i \in 1..Len(file.slots) : file.slots[i].kind = "stop"}
        first == Min(stops)
    IN  IF ~file.exists THEN [state |-> "none", data |-> <<>>]
        ELSE IF stops = {} \/ \E i \in 1..first : file.slots[i].kind = "hole"
        THEN [state |-> "corrupt", data |-> <<>>]
        ELSE [state |-> "ok",
              data |-> [i \in 1..(first - 1) |->
                          [frame_id |-> file.slots[i].frame_id,
                           timestamp |-> file.slots[i].timestamp,
                           embedding |-> file.slots[i].embedding]]]

\* The file behind an artifact that one request wrote alone: absent, the stream of its
\* entries, or an empty file where the dump failed.
PickleOf(a) ==
    IF a.state = "none" THEN [exists |-> FALSE, slots |-> <<>>]
    ELSE IF a.state = "ok" THEN [exists |-> TRUE, slots |-> PickleStream(a.data)]
    ELSE [exists |-> TRUE, slots |-> <<>>]

\* The rows of a set of Frame rows in id order (the order .all() returns them in).
RECURSIVE ById(_)
ById(rows) ==
    IF rows = {} THEN <<>>
    ELSE LET f == CHOOSE f \in rows : \A g \in rows : f.id <= g.id
         IN  <<f>> \o ById(rows \ {f})

\* The loop over the frames: a frame whose file is missing, or whose image fails to load
\* or encode (enc[id].ok = FALSE), is skipped; the others give one entry each.
RECURSIVE EmbedFrames(_, _)
EmbedFrames(fs, enc) ==
    IF fs = <<>> THEN <<>>
    ELSE LET f == Head(fs)
         IN  IF Exists(files, f.path) /\ enc[f.id].ok
             THEN <<[frame_id |-> f.id, timestamp |-> f.timestamp,
                     embedding |-> enc[f.id].vec]>> \o EmbedFrames(Tail(fs), enc)
             ELSE EmbedFrames(Tail(fs), enc)

\* The frames the loop hands to the image encoder, in order: those whose file exists.
EncodeAttempts(fs) ==
    LET kept == SelectIdx(fs, {i \in 1..Len(fs) : Exists(files, fs[i].path)})
    IN  [i \in 1..Len(kept) |-> kept[i].id]

\* generate_frame_embeddings after its check for frames: directory, loop, dump, result.
\* e.write \in {"ok", "fail"}: a dump that fails leaves a truncated file behind.
EmbedAndSave(v, e) ==
    LET fs       == ById(FramesOf(frames, v))
        computed == EmbedFrames(fs, e.enc)
        dirs2    == dirs \cup {EmbeddingsDir(v)}
    IN  IF computed # <<>> /\ e.write # "ok"
        THEN [success |-> FALSE, error |-> "write failed", processed |-> 0,
              total_frames |-> Len(fs), computed |-> computed,
              encodings |-> EncodeAttempts(fs), dirs |-> dirs2,
              artifact |-> [artifact EXCEPT ![v] = [state |-> "corrupt", data |-> <<>>]]]
        ELSE [success |-> TRUE, error |-> None, processed |-> Len(computed),
              total_frames |-> Len(fs), computed |-> computed,
              encodings |-> EncodeAttempts(fs), dirs |-> dirs2,
              artifact |-> IF computed # <<>>
                           THEN [artifact EXCEPT ![v] = [state |-> "ok", data |-> computed]]
                           ELSE artifact]

\* SimpleEmbeddingService(db): a new service object holds no model.
NewEmbeddingService == [model |-> None]

\* _load_clip_model() on the service object svc: builds the CLIP model only when the
\* object holds none; ok says whether building it works.  Result: [model, loads], loads
\* the number of times the model was built.
LoadClipModel(svc, ok) ==
    IF svc.model = None
    THEN [model |-> IF ok THEN "ViT-B-32" ELSE None, loads |-> 1]
    ELSE [model |-> svc.model, loads |-> 0]

\* A generate_frame_embeddings without the check for frames.
GenerateFrameEmbeddingsNoCheck(v, e) ==
    IF ~e.load
    THEN [success |-> FALSE, error |-> "model load failed", processed |-> 0,
          total_frames |-> 0, computed |-> <<>>, encodings |-> <<>>, dirs |-> dirs,
          artifact |-> artifact]
    ELSE EmbedAndSave(v, e)

\* generate_frame_embeddings(video_id); e.load: whether the CLIP model loads.
\* Result: [success, error, processed, total_frames, computed, encodings, dirs, artifact].
GenerateFrameEmbeddings(v, e) ==
    IF ~e.load
    THEN [success |-> FALSE, error |-> "model load failed", processed |-> 0,
          total_frames |-> 0, computed |-> <<>>, encodings |-> <<>>, dirs |-> dirs,
          artifact |-> artifact]
    ELSE IF FramesOf(frames, v) = {}
    THEN [success |-> FALSE, error |-> "No frames found", processed |-> 0,
          total_frames |-> 0, computed |-> <<>>, encodings |-> <<>>, dirs |-> dirs,
          artifact |-> artifact]
    ELSE EmbedAndSave(v, e)

\* A direct call of SimpleEmbeddingService.generate_frame_embeddings.
GenerateFrameEmbeddingsCall(v, e) ==
    LET r == GenerateFrameEmbeddings(v, e)
    IN  /\ artifact' = r.artifact
        /\ dirs' = r.dirs
        /\ last' = [op |-> "generate_frame_embeddings", video_id |-> v,
                    success |-> r.success, error |-> r.error, processed |-> r.processed,
                    total_frames |-> r.total_frames, computed |-> r.computed,
                    encodings |-> r.encodings,
                    rows |-> Cardinality(FramesOf(frames, v))]
        /\ UNCHANGED <<videos, frames, frameSeq, sections, files, chroma, inflight>>
        /\ embeddingsFile' = [embeddingsFile EXCEPT ![v] = PickleOf(artifact'[v])]

\* POST /videos/{video_id}/generate-embeddings: every answer is HTTP 200.
GenerateEmbeddings(v, e) ==
    /\ IF VideoById(v) = {}
       THEN /\ last' = [op |-> "generate_embeddings", video_id |-> v, http |-> 200,
                        status |-> "error", error |-> "Video not found",
                        called |-> FALSE, success |-> FALSE, processed |-> 0,
                        total_frames |-> 0, computed |-> <<>>, encodings |-> <<>>,
                        rows |-> 0, loads |-> 0, model |-> NewEmbeddingService.model]
            /\ UNCHANGED <<artifact, dirs>>
       ELSE IF FramesOf(frames, v) = {}
       THEN /\ last' = [op |-> "generate_embeddings", video_id |-> v, http |-> 200,
                        status |-> "error",
                        error |-> "No frames found. Extract frames first.",
                        called |-> FALSE, success |-> FALSE, processed |-> 0,
                        total_frames |-> 0, computed |-> <<>>, encodings |-> <<>>,
                        rows |-> 0, loads |-> 0, model |-> NewEmbeddingService.model]
            /\ UNCHANGED <<artifact, dirs>>
       ELSE LET r == GenerateFrameEmbeddings(v, e)
            IN  /\ artifact' = r.artifact
                /\ dirs' = r.dirs
                /\ last' = [op |-> "generate_embeddings", video_id |-> v, http |-> 200,
                            status |-> IF r.success THEN "success" ELSE "error",
                            error |-> r.error, called |-> TRUE, success |-> r.success,
                            processed |-> r.processed, total_frames |-> r.total_frames,
                            computed |-> r.computed, encodings |-> r.encodings,
                            rows |-> Cardinality(FramesOf(frames, v)),
                            loads |-> LoadClipModel(NewEmbeddingService, e.load).loads,
                            model |-> LoadClipModel(NewEmbeddingService, e.load).model]
    /\ UNCHANGED <<videos, frames, frameSeq, sections, files, chroma, inflight>>
    /\ embeddingsFile' = [embeddingsFile EXCEPT ![v] = PickleOf(artifact'[v])]

\* similarities.sort(key=similarity, reverse=True): stable, so entries of equal
\* similarity keep their order.
RECURSIVE SortBySimilarity(_)
SortBySimilarity(s) ==
    IF s = <<>> THEN <<>>
    ELSE LET sorted == SortBySimilarity(SubSeq(s, 1, Len(s) - 1))
             x      == s[Len(s)]
             before == {i \in 1..Len(sorted) : sorted[i].similarity >= x.similarity}
             k      == Cardinality(before)
         IN  SubSeq(sorted, 1, k) \o <<x>> \o SubSeq(sorted, k + 1, Len(sorted))

\* A resolving loop that answers for an entry whose row is gone from the entry itself.
RECURSIVE FrameDetailsKeepMissing(_)
FrameDetailsKeepMissing(results) ==
    IF results = <<>> THEN <<>>
    ELSE LET r   == Head(results)
             row == {f \in frames : f.id = r.frame_id}
         IN  IF row = {}
             THEN <<[frame_id |-> r.frame_id, timestamp |-> r.timestamp, path |-> <<>>,
                     similarity |-> r.similarity]>> \o FrameDetailsKeepMissing(Tail(results))
             ELSE LET f == CHOOSE f \in row : TRUE
                  IN  <<[frame_id |-> f.id, timestamp |-> f.timestamp, path |-> f.path,
                         similarity |-> r.similarity]>>
                      \o FrameDetailsKeepMissing(Tail(results))

\* The loop that resolves each ranked entry to its Frame row; an entry whose row is
\* gone is dropped.
RECURSIVE FrameDetails(_)
FrameDetails(results) ==
    IF results = <<>> THEN <<>>
    ELSE LET r   == Head(results)
             row == {f \in frames : f.id = r.frame_id}
         IN  IF row = {} THEN FrameDetails(Tail(results))
             ELSE LET f == CHOOSE f \in row : TRUE
                  IN  <<[frame_id |-> f.id, timestamp |-> f.timestamp, path |-> f.path,
                         similarity |-> r.similarity]>> \o FrameDetails(Tail(results))

\* The body of search_visual_content's try block; e says which step fails, if any:
\* e.load (the CLIP model), e.encode (the query), e.db (the Frame queries); reading a
\* truncated artifact fails by itself.  Result: [failed, ret].
SearchBody(v, query, limit, e) ==
    IF ~e.load THEN [failed |-> TRUE, ret |-> <<>>]
    ELSE IF artifact[v].state = "none" THEN [failed |-> FALSE, ret |-> <<>>]
    ELSE IF artifact[v].state = "corrupt" THEN [failed |-> TRUE, ret |-> <<>>]
    ELSE IF artifact[v].data = <<>> THEN [failed |-> FALSE, ret |-> <<>>]
    ELSE IF ~e.encode THEN [failed |-> TRUE, ret |-> <<>>]
    ELSE LET data == artifact[v].data
             sims == [i \in 1..Len(data) |->
                        [frame_id |-> data[i].frame_id, timestamp |-> data[i].timestamp,
                         similarity |-> CosineSimilarity(TextEmbedding(query),
                                                         data[i].embedding)]]
             results == SliceTo(SortBySimilarity(sims), limit)
         IN  IF ~e.db THEN [failed |-> TRUE, ret |-> <<>>]
             ELSE [failed |-> FALSE, ret |-> FrameDetails(results)]

\* A search_visual_content whose failures propagate.
SearchVisualContentUnguarded(v, query, limit, e) ==
    LET b == SearchBody(v, query, limit, e)
    IN  [raised |-> b.failed, ret |-> b.ret]

\* search_visual_content(video_id, query, limit): the except clause turns every
\* failure into [].  Result: [raised, ret].
SearchVisualContent(v, query, limit, e) ==
    LET b == SearchBody(v, query, limit, e)
    IN  [raised |-> FALSE, ret |-> IF b.failed THEN <<>> ELSE b.ret]

\* A direct call of SimpleEmbeddingService.search_visual_content.
SearchVisualContentCall(v, query, limit, e) ==
    LET r == SearchVisualContent(v, query, limit, e)
    IN  /\ last' = [op |-> "search_visual_content", video_id |-> v, query |-> query,
                    limit |-> limit, env |-> e, raised |-> r.raised, ret |-> r.ret]
        /\ UNCHANGED <<videos, frames, frameSeq, sections, files, dirs, artifact, chroma,
                       embeddingsFile, inflight>>

-----------------------------------------------------------------------------
(* Transcript / section pipeline: services/langchain_service.py            *)

\* str.strip() for blanks and tabs.
RECURSIVE Strip(_)
Strip(s) ==
    IF s = "" THEN ""
    ELSE IF SubSeq(s, 1, 1) \in {" ", "\t"} THEN Strip(SubSeq(s, 2, Len(s)))
    ELSE IF SubSeq(s, Len(s), Len(s)) \in {" ", "\t"} THEN Strip(SubSeq(s, 1, Len(s) - 1))
    ELSE s

\* answer.split('\n')
SplitLines(s) == Split(s, "\n")

\* The cleaned-up text of one non-empty stripped line: numbering ("1.") or a leading
\* dash is removed.
CleanLine(line) ==
    IF SubSeq(line, 1, 1) \in {"0", "1", "2", "3", "4", "5", "6", "7", "8", "9"}
       /\ Find(line, ".", 1) # 0
    THEN Strip(SubSeq(line, Find(line, ".", 1) + 1, Len(line)))
    ELSE IF SubSeq(line, 1, 1) = "-" THEN Strip(SubSeq(line, 2, Len(line)))
    ELSE line

\* The loop over the lines of the reply: the titles kept, in order.
RECURSIVE TitlesOf(_)
TitlesOf(lines) ==
    IF lines = <<>> THEN <<>>
    ELSE LET line == Strip(Head(lines))
         IN  IF line = "" THEN TitlesOf(Tail(lines))
             ELSE IF Len(CleanLine(line)) > 5 /\ Len(CleanLine(line)) < 100
                  THEN <<CleanLine(line)>> \o TitlesOf(Tail(lines))
                  ELSE TitlesOf(Tail(lines))

\* total_duration = 300
TotalDuration == 300

\* Times are exact fractions num/den of a second (section_duration = 300 / len(sections)).
Time(num, den) == [num |-> num, den |-> den]

TimeLess(a, b) == a.num * b.den < b.num * a.den

TimeEq(a, b) == a.num * b.den = b.num * a.den

\* The sections built from a reply of the language model: the parsed titles, or the four
\* default titles when none was parsed, spread evenly over TotalDuration.
SectionsFromAnswer(answer) ==
    LET parsed == TitlesOf(SplitLines(answer))
        titles == IF parsed = <<>>
                  THEN <<"Video Introduction", "Main Discussion", "Key Points", "Conclusion">>
                  ELSE parsed
        n == Len(titles)
    IN  [i \in 1..n |-> [title |-> titles[i],
                         start_time |-> Time((i - 1) * TotalDuration, n),
                         end_time |-> Time(i * TotalDuration, n)]]

\* Replies of the language model to the sections prompt.
Replies ==
    {"1. Introduction and Overview\n2. Main Topic Discussion\n3. Key Examples\n4. Summary and Conclusions",
     "Here are the sections:\n\n1. Getting Started\n2. Core Concepts\n3. Wrap-up and Q&A\n",
     "1. Introduction and Overview",
     "- Setup steps\n- Demo\n  - Results and discussion  ",
     "1. Opening remarks\n2. Agenda for today\n3. First topic\n4. Second topic\n5. Third topic\n6. Closing remarks",
     "I don't know.",
     "",
     "1. Intro\n2. Body\n3. End"}

\* SectionsFromAnswer on the replies of the model, computed once.
SectionsOfReply == [r \in Replies |-> SectionsFromAnswer(r)]

\* A count of chain calls in which a failed call is made a second time.
ChainCallsRetrying(idx, v, e) ==
    IF idx[v] # "none" /\ e.chain THEN (IF e.llm THEN 1 ELSE 2) ELSE 0

\* The calls of the QA chain (one call of the language model each) that one
\* ask_question or generate_sections makes: one when get_qa_chain gives a chain, whether
\* the call then succeeds or raises, and none otherwise.
ChainCalls(idx, v, e) ==
    IF idx[v] # "none" /\ e.chain THEN 1 ELSE 0

\* generate_sections(video_id) with the index directories in state idx; e.chain: whether
\* the QA chain over an existing index loads, e.llm: whether the model call succeeds,
\* e.reply: its answer.
GenerateSections(idx, v, e) ==
    IF idx[v] = "none" \/ ~e.chain
    THEN <<[title |-> "Introduction", start_time |-> Time(0, 1), end_time |-> Time(60, 1)],
           [title |-> "Main Content", start_time |-> Time(60, 1), end_time |-> Time(240, 1)],
           [title |-> "Conclusion", start_time |-> Time(240, 1), end_time |-> Time(300, 1)]>>
    ELSE IF ~e.llm
    THEN <<[title |-> "Video Introduction", start_time |-> Time(0, 1),
            end_time |-> Time(75, 1)],
           [title |-> "Main Content", start_time |-> Time(75, 1), end_time |-> Time(225, 1)],
           [title |-> "Summary", start_time |-> Time(225, 1), end_time |-> Time(300, 1)]>>
    ELSE SectionsOfReply[e.reply]

\* A direct call of LangChainVideoService.generate_sections.
GenerateSectionsCall(v, e) ==
    /\ last' = [op |-> "generate_sections", video_id |-> v, env |-> e,
                indexed |-> chroma[v] # "none", ret |-> GenerateSections(chroma, v, e),
                llm_calls |-> ChainCalls(chroma, v, e)]
    /\ UNCHANGED <<videos, frames, frameSeq, sections, files, dirs, artifact, chroma,
                   embeddingsFile, inflight>>

\* process_transcript after its check for segments: the chunks, the index directory
\* (made before Chroma.from_documents runs) and the index.  e.chunks: the chunks the
\* splitter makes; e.index: whether Chroma.from_documents succeeds.
IndexTranscript(v, segments, e) ==
    IF e.index # "ok"
    THEN [success |-> FALSE, segments_count |-> segments, chunks_count |-> 0,
          chroma |-> [chroma EXCEPT ![v] = IF @ = "none" THEN "empty" ELSE @]]
    ELSE [success |-> TRUE, segments_count |-> segments, chunks_count |-> e.chunks,
          chroma |-> [chroma EXCEPT ![v] = "indexed"]]

\* A fetch_transcript that takes the transcript API's answer whatever the URL is.
FetchTranscriptAnyUrl(url, e) == e.segments

\* fetch_transcript(video_url): the number of segments fetched; none when the URL has no
\* YouTube id or the transcript API fails or has nothing (e.segments = 0).
FetchTranscript(url, e) == IF YouTubeId[url] = None THEN 0 ELSE e.segments

\* The calls of YouTubeTranscriptApi.get_transcript that one fetch_transcript makes:
\* one, unless extract_video_id raises first.
FetchCalls(url) == IF YouTubeId[url] = None THEN 0 ELSE 1

\* A process_transcript without the check for an empty segment list.
ProcessTranscriptNoEmptyCheck(v, url, e) == IndexTranscript(v, FetchTranscript(url, e), e)

\* process_transcript(video_id, video_url).
\* Result: [success, segments_count, chunks_count, chroma].
ProcessTranscript(v, url, e) ==
    IF FetchTranscript(url, e) = 0
    THEN [success |-> FALSE, segments_count |-> 0, chunks_count |-> 0, chroma |-> chroma]
    ELSE IndexTranscript(v, FetchTranscript(url, e), e)

\* A direct call of LangChainVideoService.process_transcript.
ProcessTranscriptCall(v, url, e) ==
    LET r == ProcessTranscript(v, url, e)
    IN  /\ chroma' = r.chroma
        /\ last' = [op |-> "process_transcript", video_id |-> v, url |-> url, env |-> e,
                    success |-> r.success, segments_count |-> r.segments_count,
                    chunks_count |-> r.chunks_count, fetches |-> FetchCalls(url)]
        /\ UNCHANGED <<videos, frames, frameSeq, sections, files, dirs, artifact,
                       embeddingsFile, inflight>>

-----------------------------------------------------------------------------
(* Upload: api/routes.py                                                   *)

\* Section rows that keep the times generate_sections returned (in whole seconds).
UploadedSectionsWithGeneratedTimes(v, success, data) ==
    IF success
    THEN {[id |-> Cardinality(sections) + i, video_id |-> v, title |-> data[i].title,
           start_time |-> data[i].start_time.num \div data[i].start_time.den,
           end_time |-> data[i].end_time.num \div data[i].end_time.den] :
            i \in 1..Len(data)}
    ELSE {[id |-> Cardinality(sections) + 1, video_id |-> v, title |-> "Video Content",
           start_time |-> 0, end_time |-> 300]}

\* The Section rows an upload adds for video v: one per generated section, a minute
\* each, or the single fallback row.  Section rows are never deleted, so the next id is
\* the number of rows plus one.
UploadedSections(v, success, data) ==
    IF success
    THEN {[id |-> Cardinality(sections) + i, video_id |-> v, title |-> data[i].title,
           start_time |-> (i - 1) * 60, end_time |-> i * 60] : i \in 1..Len(data)}
    ELSE {[id |-> Cardinality(sections) + 1, video_id |-> v, title |-> "Video Content",
           start_time |-> 0, end_time |-> 300]}

\* A Section table in which an upload replaces the rows the video had.
SectionsAfterUploadReplacing(v, success, data) ==
    {s \in sections : s.video_id # v} \cup UploadedSections(v, success, data)

\* The Section table after the db.add calls and the commit of an upload: the rows there
\* were and the new ones; the handler deletes and updates none.
SectionsAfterUpload(v, success, data) ==
    sections \cup UploadedSections(v, success, data)

\* POST /upload {url}: create_video, process_transcript, then the Section rows and one
\* commit; an exception of create_video is answered with HTTP 400.
UploadVideo(url, e) ==
    /\ Cardinality(sections) < MaxSections
    /\ LET c == CreateVideo(url)
       IN  IF c.raised
           THEN /\ last' = [op |-> "upload", url |-> url, env |-> e, http |-> 400,
                            video_id |-> 0, ran |-> FALSE, success |-> FALSE,
                            segments_count |-> 0, chunks_count |-> 0,
                            fetches |-> 0, llm_calls |-> 0]
                /\ UNCHANGED <<videos, sections, chroma>>
           ELSE LET v == c.ret.id
                    t == ProcessTranscript(v, url, e)
                    data == IF t.success THEN GenerateSections(t.chroma, v, e) ELSE <<>>
                IN  /\ videos' = c.rows
                    /\ chroma' = t.chroma
                    /\ sections' = SectionsAfterUpload(v, t.success, data)
                    /\ last' = [op |-> "upload", url |-> url, env |-> e, http |-> 200,
                                video_id |-> v, ran |-> TRUE, success |-> t.success,
                                segments_count |-> t.segments_count,
                                chunks_count |-> t.chunks_count,
                                fetches |-> FetchCalls(url),
                                llm_calls |-> IF t.success
                                              THEN ChainCalls(t.chroma, v, e) ELSE 0]
    /\ UNCHANGED <<frames, frameSeq, files, dirs, artifact, embeddingsFile, inflight>>

-----------------------------------------------------------------------------
(* Frame images: GET /frames/storage/{file_path:path} in api/routes.py     *)

\* os.path.join("storage", file_path): an absolute second part replaces the first.
JoinStorage(file_path) ==
    IF StartsWith(file_path, "/") THEN file_path ELSE "storage/" \o file_path

\* os.path.normpath on the components of a path: empty and "." components go, ".."
\* takes the component before it away (and stays at the root).
RECURSIVE NormComponents(_, _)
NormComponents(todo, done) ==
    IF todo = <<>> THEN done
    ELSE IF Head(todo) \in {"", "."} THEN NormComponents(Tail(todo), done)
    ELSE IF Head(todo) = ".."
         THEN NormComponents(Tail(todo),
                             IF done = <<>> THEN <<>> ELSE SubSeq(done, 1, Len(done) - 1))
    ELSE NormComponents(Tail(todo), Append(done, Head(todo)))

\* The components of os.path.abspath(path).
AbsComponents(path) ==
    IF StartsWith(path, "/") THEN NormComponents(Split(path, "/"), <<>>)
    ELSE NormComponents(Split(path, "/"), Cwd)

\* The string of an absolute path given by its components.
RECURSIVE PathString(_)
PathString(cs) == IF cs = <<>> THEN "" ELSE "/" \o Head(cs) \o PathString(Tail(cs))

\* os.path.abspath(path)
AbsPath(path) == IF AbsComponents(path) = <<>> THEN "/" ELSE PathString(AbsComponents(path))

\* serve_frame_image(file_path) on files fs: the status and, with 200, the file sent.
ServeFrameImageResult(fs, file_path) ==
    LET storage_path == JoinStorage(file_path)
    IN  IF AbsComponents(storage_path) \notin fs
        THEN [http |-> 404, served |-> <<>>]
        ELSE IF ~StartsWith(AbsPath(storage_path), AbsPath("storage"))
        THEN [http |-> 403, served |-> <<>>]
        ELSE [http |-> 200, served |-> AbsComponents(storage_path)]

\* Requested paths: the frames of video 1, a missing frame, and paths that leave the
\* storage directory.
ServePaths ==
    {"frames/1/frame_000000_0.00s.jpg", "frames/1/frame_000001_10.00s.jpg",
     "frames/./1/../1/frame_000002_20.00s.jpg", "frames/1/missing.jpg",
     "../secret.env", "frames/../../secret.env", "../storage_backup/dump.jpg",
     "/etc/passwd", "../../etc/passwd", "temp/video_abc123.mp4.part"}

\* GET /frames/storage/{file_path}
ServeFrameImage(file_path) ==
    /\ last' = [op |-> "serve_frame_image", file_path |-> file_path,
                http |-> ServeFrameImageResult(files, file_path).http,
                served |-> ServeFrameImageResult(files, file_path).served]
    /\ UNCHANGED <<videos, frames, frameSeq, sections, files, dirs, artifact, chroma,
                   embeddingsFile, inflight>>

-----------------------------------------------------------------------------
(* Question answering: ask_question and get_qa_chain in                    *)
(* services/langchain_service.py, POST /chat/{video_id} in api/routes.py   *)

\* for doc in sources[:3]
SourceLimit == 3

\* doc.page_content[:200] + "..." if len(doc.page_content) > 200
ContentLimit == 200

\* A text of n characters.
RECURSIVE Repeat(_, _)
Repeat(c, n) ==
    IF n = 0 THEN "" ELSE IF n = 1 THEN c
    ELSE Repeat(c, n \div 2) \o Repeat(c, n - (n \div 2))

\* Chunks the retriever can return: short, of exactly ContentLimit characters, one
\* character longer, and much longer.
ChunkShort == [page_content |-> "welcome to the course", timestamp |-> "00:00", start_time |-> 0]

Chunk200 == [page_content |-> Repeat("a", ContentLimit), timestamp |-> "00:40", start_time |-> 40]

Chunk201 == [page_content |-> Repeat("b", ContentLimit + 1), timestamp |-> "01:15",
             start_time |-> 75]

ChunkLong == [page_content |-> Repeat("c", ContentLimit + 50), timestamp |-> "02:30",
              start_time |-> 150]

\* The answer returned when no QA chain can be built.
CannedAnswer ==
    "Sorry, I cannot answer questions about this video. The transcript may not be available or processed yet."

\* The answer returned when the chain call raises.
ErrorAnswer == "Sorry, I encountered an error: model call failed"

\* get_qa_chain(video_id): a chain exists when the index directory exists and the
\* vector store and chain load (e.chain).
GetQaChain(idx, v, e) == idx[v] # "none" /\ e.chain

\* One formatted source: the content cut to ContentLimit characters with "..." appended
\* when the chunk is longer, the chunk itself otherwise.
FormatSource(doc) ==
    [content    |-> IF Len(doc.page_content) > ContentLimit
                    THEN SubSeq(doc.page_content, 1, ContentLimit) \o "..."
                    ELSE doc.page_content,
     timestamp  |-> doc.timestamp,
     start_time |-> doc.start_time]

\* An ask_question that formats every source document the chain returns.
AskQuestionAllSources(idx, v, question, e) ==
    IF ~GetQaChain(idx, v, e)
    THEN [success |-> FALSE, answer |-> CannedAnswer, sources |-> <<>>]
    ELSE IF ~e.llm
    THEN [success |-> FALSE, answer |-> ErrorAnswer, sources |-> <<>>]
    ELSE [success |-> TRUE, answer |-> e.answer,
          sources |-> [i \in 1..Len(e.docs) |-> FormatSource(e.docs[i])]]

\* ask_question(video_id, question) with the index directories in state idx; e.llm:
\* whether the chain call succeeds, e.answer and e.docs: its result and source documents.
\* Result: [success, answer, sources].
AskQuestion(idx, v, question, e) ==
    IF ~GetQaChain(idx, v, e)
    THEN [success |-> FALSE, answer |-> CannedAnswer, sources |-> <<>>]
    ELSE IF ~e.llm
    THEN [success |-> FALSE, answer |-> ErrorAnswer, sources |-> <<>>]
    ELSE LET top == SliceTo(e.docs, SourceLimit)
         IN  [success |-> TRUE, answer |-> e.answer,
              sources |-> [i \in 1..Len(top) |-> FormatSource(top[i])]]

\* A direct call of LangChainVideoService.ask_question.
AskQuestionCall(v, question, e) ==
    LET r == AskQuestion(chroma, v, question, e)
    IN  /\ last' = [op |-> "ask_question", video_id |-> v, question |-> question,
                    env |-> e, indexed |-> chroma[v] # "none", success |-> r.success,
                    answer |-> r.answer, sources |-> r.sources,
                    llm_calls |-> ChainCalls(chroma, v, e)]
        /\ UNCHANGED <<videos, frames, frameSeq, sections, files, dirs, artifact, chroma,
                       embeddingsFile, inflight>>

\* A chat handler without the check that the video exists.
ChatWithVideoNoVideoCheck(v, message, e) ==
    /\ IF message = ""
       THEN last' = [op |-> "chat", video_id |-> v, message |-> message, env |-> e,
                     http |-> 400, asks |-> 0, response |-> None, success |-> FALSE,
                     sources |-> <<>>, llm_calls |-> 0]
       ELSE LET r == AskQuestion(chroma, v, message, e)
            IN  last' = [op |-> "chat", video_id |-> v, message |-> message, env |-> e,
                         http |-> 200, asks |-> 1, response |-> r.answer,
                         success |-> r.success, sources |-> r.sources,
                         llm_calls |-> ChainCalls(chroma, v, e)]
    /\ UNCHANGED <<videos, frames, frameSeq, sections, files, dirs, artifact, chroma,
                   embeddingsFile, inflight>>

\* POST /chat/{video_id} {message}: 400 without a message, 404 without the video,
\* otherwise one ask_question whose answer, success flag and sources are returned.
ChatWithVideo(v, message, e) ==
    /\ IF message = ""
       THEN last' = [op |-> "chat", video_id |-> v, message |-> message, env |-> e,
                     http |-> 400, asks |-> 0, response |-> None, success |-> FALSE,
                     sources |-> <<>>, llm_calls |-> 0]
       ELSE IF VideoById(v) = {}
       THEN last' = [op |-> "chat", video_id |-> v, message |-> message, env |-> e,
                     http |-> 404, asks |-> 0, response |-> None, success |-> FALSE,
                     sources |-> <<>>, llm_calls |-> 0]
       ELSE LET r == AskQuestion(chroma, v, message, e)
            IN  last' = [op |-> "chat", video_id |-> v, message |-> message, env |-> e,
                         http |-> 200, asks |-> 1, response |-> r.answer,
                         success |-> r.success, sources |-> r.sources,
                         llm_calls |-> ChainCalls(chroma, v, e)]
    /\ UNCHANGED <<videos, frames, frameSeq, sections, files, dirs, artifact, chroma,
                   embeddingsFile, inflight>>

\* GET /langchain/status/{video_id}: processed is whether the index directory exists.
GetLangchainStatus(v) ==
    /\ last' = [op |-> "langchain_status", video_id |-> v, processed |-> chroma[v] # "none"]
    /\ UNCHANGED <<videos, frames, frameSeq, sections, files, dirs, artifact, chroma,
                   embeddingsFile, inflight>>

-----------------------------------------------------------------------------
(* Visual-search endpoint: GET /visual-search/{video_id} in api/routes.py  *)

\* context[:200] + "..." if len(context) > 200 else context
ContextLimit == 200

\* The result entries as the endpoint returns them: similarity becomes score, and the
\* search type is attached.
FormatResults(raw, search_type) ==
    [i \in 1..Len(raw) |->
        [frame_id |-> raw[i].frame_id, timestamp |-> raw[i].timestamp, path |-> raw[i].path,
         score |-> raw[i].similarity,
         match_type |-> IF search_type = "visual" THEN "visual" ELSE "hybrid"]]

\* The branch for the search types visual and hybrid: the Visual Search Engine, and for
\* hybrid one ask_question whose answer (when it succeeded) becomes the context.
VisualBranch(v, query, search_type, limit, e) ==
    LET raw     == SearchVisualContent(v, query, limit, e.search).ret
        qa      == AskQuestion(chroma, v, "Find information about: " \o query, e.ask)
        context == IF qa.success THEN qa.answer ELSE ""
    IN  [error |-> None, search_type |-> search_type,
         results |-> FormatResults(raw, search_type), total_results |-> Len(raw),
         context |-> IF search_type # "hybrid" THEN None
                     ELSE IF Len(context) > ContextLimit
                     THEN SubSeq(context, 1, ContextLimit) \o "..."
                     ELSE context,
         answer |-> None, success |-> FALSE, sources |-> <<>>,
         visual_runs |-> 1, qa_runs |-> IF search_type = "hybrid" THEN 1 ELSE 0]

\* The branch for every other search type: one ask_question, reported as type "text".
TextBranch(v, query, e) ==
    LET qa == AskQuestion(chroma, v, query, e.ask)
    IN  [error |-> None, search_type |-> "text", results |-> <<>>, total_results |-> 0,
         context |-> None, answer |-> qa.answer, success |-> qa.success,
         sources |-> qa.sources, visual_runs |-> 0, qa_runs |-> 1]

\* A visual_search that takes only the type visual to the Visual Search Engine.
VisualSearchHybridAsText(v, query, search_type, limit, e) ==
    IF VideoById(v) = {}
    THEN [error |-> "Video not found", search_type |-> search_type, results |-> <<>>,
          total_results |-> 0, context |-> None, answer |-> None, success |-> FALSE,
          sources |-> <<>>, visual_runs |-> 0, qa_runs |-> 0]
    ELSE IF search_type = "visual"
    THEN VisualBranch(v, query, search_type, limit, e)
    ELSE TextBranch(v, query, e)

\* visual_search(video_id, query, search_type, limit): the body of the 200 answer.
VisualSearchResult(v, query, search_type, limit, e) ==
    IF VideoById(v) = {}
    THEN [error |-> "Video not found", search_type |-> search_type, results |-> <<>>,
          total_results |-> 0, context |-> None, answer |-> None, success |-> FALSE,
          sources |-> <<>>, visual_runs |-> 0, qa_runs |-> 0]
    ELSE IF search_type = "visual" \/ search_type = "hybrid"
    THEN VisualBranch(v, query, search_type, limit, e)
    ELSE TextBranch(v, query, e)

\* GET /visual-search/{video_id}?query=&search_type=&limit=
VisualSearch(v, query, search_type, limit, e) ==
    /\ LET body == VisualSearchResult(v, query, search_type, limit, e)
           svc  == IF body.visual_runs = 1
                   THEN LoadClipModel(NewEmbeddingService, e.search.load)
                   ELSE [model |-> NewEmbeddingService.model, loads |-> 0]
       IN  last' = [op |-> "visual_search", video_id |-> v, query |-> query,
                    requested |-> search_type, limit |-> limit, env |-> e,
                    body |-> body, loads |-> svc.loads, model |-> svc.model]
    /\ UNCHANGED <<videos, frames, frameSeq, sections, files, dirs, artifact, chroma,
                   embeddingsFile, inflight>>

-----------------------------------------------------------------------------
(* Section regeneration: POST /sections/{section_id}/regenerate            *)

\* db.query(Section).filter(Section.id == section_id).first()
SectionById(sid) == {s \in sections : s.id = sid}

\* A regeneration that retitles every section of the owning video.
RegeneratedRowsWholeVideo(sid, e) ==
    LET s    == CHOOSE s \in SectionById(sid) : TRUE
        data == GenerateSections(chroma, s.video_id, e)
    IN  IF data = <<>> THEN sections
        ELSE {IF x.video_id = s.video_id THEN [x EXCEPT !.title = data[1].title] ELSE x :
                x \in sections}

\* The Section rows after regenerating the existing section sid: its title becomes the
\* first title generate_sections returns for its video (when it returns any).
RegeneratedRows(sid, e) ==
    LET s    == CHOOSE s \in SectionById(sid) : TRUE
        data == GenerateSections(chroma, s.video_id, e)
    IN  IF data = <<>> THEN sections
        ELSE (sections \ {s}) \cup {[s EXCEPT !.title = data[1].title]}

\* POST /sections/{section_id}/regenerate: 404 without the section, otherwise one
\* generate_sections for the owning video and one commit.
RegenerateSection(sid, e) ==
    /\ IF SectionById(sid) = {}
       THEN /\ sections' = sections
            /\ last' = [op |-> "regenerate_section", section_id |-> sid, env |-> e,
                        http |-> 404, found |-> FALSE]
       ELSE /\ sections' = RegeneratedRows(sid, e)
            /\ last' = [op |-> "regenerate_section", section_id |-> sid, env |-> e,
                        http |-> 200, found |-> TRUE]
    /\ UNCHANGED <<videos, frames, frameSeq, files, dirs, artifact, chroma,
                   embeddingsFile, inflight>>

-----------------------------------------------------------------------------
(* generate_frame_embeddings step by step, for requests of several server  *)
(* processes: the loop over the frames, open(embeddings_file, 'wb'), the   *)
(* writes of pickle.dump, and the close at the end of the with block       *)

\* An open that keeps what the file holds (mode 'r+b').
OpenWithoutTruncating(file) == [exists |-> TRUE, slots |-> file.slots]

\* open(embeddings_file, 'wb'): the file exists and is empty, whatever it held and
\* whoever else has it open; nothing is locked.
OpenForWrite(file) == [exists |-> TRUE, slots |-> <<>>]

\* One write of a process whose own file offset is pos - 1: the slot lands at pos, and
\* a file that is shorter is filled up with holes.
WriteSlot(file, pos, slot) ==
    [exists |-> TRUE,
     slots  |-> [i \in 1..Max({Len(file.slots), pos}) |->
                    IF i = pos THEN slot
                    ELSE IF i <= Len(file.slots) THEN file.slots[i]
                    ELSE HoleSlot]]

\* Process w takes a request and runs generate_frame_embeddings(v) up to the dump: the
\* model, the frames, the directory and the loop.  Without a model, frames or entries
\* the call returns at once.
EmbedStart(w, v, e) ==
    /\ inflight[w].pc = "idle"
    /\ LET r == GenerateFrameEmbeddings(v, e)
           ret == [success |-> r.success, error |-> r.error, processed |-> r.processed,
                   total_frames |-> r.total_frames, computed |-> r.computed,
                   encodings |-> r.encodings]
       IN  /\ dirs' = r.dirs
           /\ IF r.computed = <<>>
              THEN /\ inflight' = [inflight EXCEPT ![w] =
                                      [Idle EXCEPT !.pc = "done", !.video_id = v]]
                   /\ last' = [op |-> "generate_frame_embeddings", video_id |-> v,
                               success |-> r.success, error |-> r.error,
                               processed |-> r.processed,
                               total_frames |-> r.total_frames, computed |-> r.computed,
                               encodings |-> r.encodings,
                               rows |-> Cardinality(FramesOf(frames, v))]
              ELSE /\ inflight' = [inflight EXCEPT ![w] =
                                      [Idle EXCEPT !.pc = "open", !.video_id = v,
                                                   !.out = r.computed]]
                   /\ UNCHANGED last
    /\ UNCHANGED <<videos, frames, frameSeq, sections, files, artifact, chroma,
                   embeddingsFile>>

\* Process w opens the artifact for writing.  turn counts the opens; overlapped marks
\* every write that shares some of its time with another write to the same file.
EmbedOpen(w) ==
    /\ inflight[w].pc = "open"
    /\ LET v == inflight[w].video_id
           others == {o \in Workers \ {w} :
                         inflight[o].pc = "write" /\ inflight[o].video_id = v}
       IN  /\ embeddingsFile' = [embeddingsFile EXCEPT ![v] = OpenForWrite(@)]
           /\ artifact' = [artifact EXCEPT ![v] = LoadPickle(embeddingsFile'[v])]
           /\ inflight' = [o \in Workers |->
                              IF o = w
                              THEN [inflight[o] EXCEPT
                                       !.pc = "write", !.pos = 0,
                                       !.turn = 1 + Cardinality({x \in Workers :
                                                                  inflight[x].turn > 0}),
                                       !.overlapped = others # {}]
                              ELSE IF o \in others
                              THEN [inflight[o] EXCEPT !.overlapped = TRUE]
                              ELSE inflight[o]]
    /\ UNCHANGED <<videos, frames, frameSeq, sections, files, dirs, chroma, last>>

\* Process w writes the next slot of its stream at its own offset.
EmbedWrite(w) ==
    /\ inflight[w].pc = "write"
    /\ inflight[w].pos < Len(PickleStream(inflight[w].out))
    /\ LET v == inflight[w].video_id
           pos == inflight[w].pos + 1
       IN  /\ embeddingsFile' = [embeddingsFile EXCEPT ![v] =
                                    WriteSlot(@, pos, PickleStream(inflight[w].out)[pos])]
           /\ artifact' = [artifact EXCEPT ![v] = LoadPickle(embeddingsFile'[v])]
           /\ inflight' = [inflight EXCEPT ![w].pos = pos]
    /\ UNCHANGED <<videos, frames, frameSeq, sections, files, dirs, chroma, last>>

\* Process w has written its whole stream: the file is closed and the call returns.
EmbedClose(w) ==
    /\ inflight[w].pc = "write"
    /\ inflight[w].pos = Len(PickleStream(inflight[w].out))
    /\ inflight' = [inflight EXCEPT ![w].pc = "done"]
    /\ last' = [op |-> "generate_frame_embeddings", video_id |-> inflight[w].video_id,
                success |-> TRUE, error |-> None, processed |-> Len(inflight[w].out),
                total_frames |-> Cardinality(FramesOf(frames, inflight[w].video_id)),
                computed |-> inflight[w].out,
                encodings |-> EncodeAttempts(ById(FramesOf(frames, inflight[w].video_id))),
                rows |-> Cardinality(FramesOf(frames, inflight[w].video_id))]
    /\ UNCHANGED <<videos, frames, frameSeq, sections, files, dirs, artifact, chroma,
                   embeddingsFile>>

-----------------------------------------------------------------------------
(* extract_frames step by step, for requests of several server processes:  *)
(* the lookups, the download, the ffmpeg loop, and the insertion of the    *)
(* rows followed by the finally clause                                     *)

\* Process w takes a request: FrameService.extract_frames finds the video, and
\* process_video_frames looks for Frame rows of it; with rows the call returns them.
ExtractCheck(w, v) ==
    /\ inflight[w].pc = "idle"
    /\ frameSeq < MaxFrameSeq
    /\ IF VideoById(v) = {}
       THEN /\ inflight' = [inflight EXCEPT ![w] = [Idle EXCEPT !.pc = "done",
                                                                !.video_id = v]]
            /\ last' = [op |-> "extract_frames", video_id |-> v, found |-> FALSE,
                        status |-> None, extracted_count |-> 0, shortcut |-> FALSE]
       ELSE IF FramesOf(frames, v) # {}
       THEN /\ inflight' = [inflight EXCEPT ![w] = [Idle EXCEPT !.pc = "done",
                                                                !.video_id = v]]
            /\ last' = [op |-> "extract_frames", video_id |-> v, found |-> TRUE,
                        status |-> "success",
                        extracted_count |-> Cardinality(FramesOf(frames, v)),
                        shortcut |-> TRUE]
       ELSE /\ inflight' = [inflight EXCEPT ![w] =
                               [Idle EXCEPT !.pc = "download", !.video_id = v,
                                   !.url = (CHOOSE x \in VideoById(v) : TRUE).url]]
            /\ UNCHANGED last
    /\ UNCHANGED <<videos, frames, frameSeq, sections, files, dirs, artifact, chroma,
                   embeddingsFile>>

\* Process w downloads the media to storage/temp (dl = "ok") or fails to.
ExtractDownload(w, dl) ==
    /\ inflight[w].pc = "download"
    /\ IF dl = "ok"
       THEN /\ files' = files \cup {Cwd \o TempVideoPath(inflight[w].url)}
            /\ inflight' = [inflight EXCEPT ![w].pc = "extract", ![w].downloads = 1]
            /\ UNCHANGED last
       ELSE /\ inflight' = [inflight EXCEPT ![w].pc = "done", ![w].downloads = 1]
            /\ last' = [op |-> "extract_frames", video_id |-> inflight[w].video_id,
                        found |-> TRUE, status |-> "error", extracted_count |-> 0,
                        shortcut |-> FALSE]
            /\ UNCHANGED files
    /\ UNCHANGED <<videos, frames, frameSeq, sections, dirs, artifact, chroma,
                   embeddingsFile>>

\* Process w runs extract_frames_from_video on the downloaded file; when the file is
\* gone (another process's finally clause removed it) or ffmpeg fails, the call ends
\* with an error after its own finally clause.
ExtractRun(w, e) ==
    /\ inflight[w].pc = "extract"
    /\ Len(e.out) = NumAttempts(e.duration, Interval)
    /\ LET v    == inflight[w].video_id
           temp == Cwd \o TempVideoPath(inflight[w].url)
           x    == ExtractFramesFromVideo(v, Interval, e)
       IN  IF temp \notin files \/ x.raised
           THEN /\ files' = (IF temp \in files THEN x.files ELSE files) \ {temp}
                /\ dirs' = dirs \cup {VideoFramesDir(v)}
                /\ inflight' = [inflight EXCEPT ![w].pc = "done"]
                /\ last' = [op |-> "extract_frames", video_id |-> v, found |-> TRUE,
                            status |-> "error", extracted_count |-> 0,
                            shortcut |-> FALSE]
           ELSE /\ files' = x.files
                /\ dirs' = x.dirs
                /\ inflight' = [inflight EXCEPT ![w].pc = "save", ![w].data = x.data]
                /\ UNCHANGED last
    /\ UNCHANGED <<videos, frames, frameSeq, sections, artifact, chroma, embeddingsFile>>

\* Process w inserts its Frame rows and commits; the finally clause removes the
\* downloaded file.
ExtractSave(w) ==
    /\ inflight[w].pc = "save"
    /\ LET v == inflight[w].video_id
           s == SaveFrameRecords(frames, frameSeq, v, inflight[w].data)
       IN  /\ frames' = s.rows
           /\ frameSeq' = s.seq
           /\ files' = files \ {Cwd \o TempVideoPath(inflight[w].url)}
           /\ inflight' = [inflight EXCEPT ![w].pc = "done"]
           /\ last' = [op |-> "extract_frames", video_id |-> v, found |-> TRUE,
                       status |-> "success", extracted_count |-> Cardinality(s.ret),
                       shortcut |-> FALSE]
    /\ UNCHANGED <<videos, sections, dirs, artifact, chroma, embeddingsFile>>

-----------------------------------------------------------------------------
(* Specification of the frame pipeline: registry, extraction, lookup,      *)
(* cleanup                                                                 *)

Init ==
    /\ videos = {}
    /\ frames = {}
    /\ frameSeq = 0
    /\ sections = {}
    /\ files = HostFiles
    /\ dirs = {<<"storage", "frames">>, <<"storage", "temp">>}
    /\ artifact = [v \in VideoIds |-> [state |-> "none", data |-> <<>>]]
    /\ chroma = [v \in VideoIds |-> "none"]
    /\ embeddingsFile = [v \in VideoIds |-> [exists |-> FALSE, slots |-> <<>>]]
    /\ inflight = [w \in Workers |-> Idle]
    /\ last = [op |-> "none"]

\* ffmpeg's outcomes for media of duration d sampled every Interval seconds.
FfmpegRuns(d) == [1..NumAttempts(d, Interval) -> {"file", "nofile", "raise"}]

\* What yt-dlp, ffmpeg and the commit can do during one extraction of media lasting d.
ExtractEnvs(d) ==
    {[dl |-> x, probeOk |-> FALSE, duration |-> d, out |-> o, save |-> "ok"] :
        x \in {"fail", "partial"}, o \in {[k \in 1..NumAttempts(d, Interval) |-> "file"]}}
    \cup {[dl |-> "ok", probeOk |-> FALSE, duration |-> d, out |-> o, save |-> "ok"] :
        o \in {[k \in 1..NumAttempts(d, Interval) |-> "file"]}}
    \cup {[dl |-> "ok", probeOk |-> TRUE, duration |-> d, out |-> o, save |-> s] :
        o \in FfmpegRuns(d), s \in {"ok", "fail"}}

\* Extractions in which every tool succeeds and ffmpeg writes a file or writes none.
QuietEnvs(d) ==
    {[dl |-> "ok", probeOk |-> TRUE, duration |-> d, out |-> o, save |-> "ok"] :
        o \in [1..NumAttempts(d, Interval) -> {"file", "nofile"}]}

\* Extractions in which every tool succeeds and ffmpeg writes every file.
FullEnvs(d) ==
    {[dl |-> "ok", probeOk |-> TRUE, duration |-> d,
      out |-> [k \in 1..NumAttempts(d, Interval) |-> "file"], save |-> "ok"]}

\* Media durations in seconds: no sample, two samples, three samples.
Durations == {0, 15, 25}

\* One URL with a YouTube id and one without; video 1 can exist, video 2 never does.
PipelineUrls == {"https://youtu.be/abc123", "https://example.com/clip"}

PipelineIds == {1, 2}

Next ==
    \/ \E url \in PipelineUrls : CreateVideoCall(url)
    \/ \E v \in PipelineIds, d \in Durations : \E e \in ExtractEnvs(d) : ExtractFrames(v, e)
    \/ \E v \in PipelineIds : CleanupVideoFramesCall(v)

Spec == Init /\ [][Next]_vars

-----------------------------------------------------------------------------
(* Specification of the nearest-timestamp lookup over two videos           *)

LookupTimes == {0, 4, 5, 10, 26}

Tolerances == {0, 5, 10}

NextLookup ==
    \/ \E url \in Urls : CreateVideoCall(url)
    \/ \E v \in VideoIds : \E e \in QuietEnvs(25) : ExtractFrames(v, e)
    \/ \E v \in VideoIds, t \in LookupTimes, w \in Tolerances :
          GetFrameByTimestampCall(v, t, w)

SpecLookup == Init /\ [][NextLookup]_vars

-----------------------------------------------------------------------------
(* Specification of embedding generation and visual search                 *)

\* Frame ids the database can hand out within the bound.
FrameIds == 1..(MaxFrameSeq + 3)

\* What loading and encoding the frames' images can give: every frame encodes to the
\* same vector, to alternating vectors, or the frames of one parity fail.
EncodeOutcomes ==
    {[i \in FrameIds |-> [ok |-> TRUE, vec |-> <<1, 0>>]],
     [i \in FrameIds |-> [ok |-> TRUE, vec |-> IF i % 2 = 0 THEN <<0, 1>> ELSE <<-1, 0>>]],
     [i \in FrameIds |-> [ok |-> i % 2 = 1, vec |-> IF i % 3 = 0 THEN <<1, 0>> ELSE <<0, 1>>]],
     [i \in FrameIds |-> [ok |-> FALSE, vec |-> <<1, 0>>]]}

GenerateEnvs ==
    {[load |-> TRUE, enc |-> c, write |-> w] : c \in EncodeOutcomes, w \in {"ok", "fail"}}
    \cup {[load |-> FALSE, enc |-> c, write |-> "ok"] :
            c \in {[i \in FrameIds |-> [ok |-> TRUE, vec |-> <<1, 0>>]]}}

SearchEnvs ==
    {[load |-> TRUE, encode |-> TRUE, db |-> TRUE], [load |-> FALSE, encode |-> TRUE, db |-> TRUE],
     [load |-> TRUE, encode |-> FALSE, db |-> TRUE], [load |-> TRUE, encode |-> TRUE, db |-> FALSE]}

Queries == {"a red car", "a person speaking"}

Limits == {-1, 0, 2, 20}

NextEmbed ==
    \/ \E url \in PipelineUrls : CreateVideoCall(url)
    \/ \E v \in PipelineIds : \E e \in FullEnvs(25) : ExtractFrames(v, e)
    \/ \E v \in PipelineIds : CleanupVideoFramesCall(v)
    \/ \E v \in PipelineIds, e \in GenerateEnvs : GenerateFrameEmbeddingsCall(v, e)
    \/ \E v \in PipelineIds, e \in GenerateEnvs : GenerateEmbeddings(v, e)
    \/ \E v \in PipelineIds, q \in Queries, n \in Limits, e \in SearchEnvs :
          SearchVisualContentCall(v, q, n, e)

SpecEmbed == Init /\ [][NextEmbed]_vars

-----------------------------------------------------------------------------
(* Specification of upload, transcript processing and section generation   *)

\* What the model chain does for generate_sections.
SectionEnvs(replies) ==
    {[chain |-> FALSE, llm |-> TRUE, reply |-> ""], [chain |-> TRUE, llm |-> FALSE, reply |-> ""]}
    \cup {[chain |-> TRUE, llm |-> TRUE, reply |-> r] : r \in replies}

\* What the transcript API, the splitter and the index do during one upload.
UploadEnvs ==
    {[segments |-> n, chunks |-> IF x = "ok" THEN 2 ELSE 0, index |-> x, chain |-> g.chain,
      llm |-> g.llm, reply |-> g.reply] :
        n \in {0, 2}, x \in {"ok", "fail"},
        g \in SectionEnvs({"1. Introduction and Overview"})}

NextUpload ==
    \/ \E url \in Urls : CreateVideoCall(url)
    \/ \E url \in Urls, e \in UploadEnvs : UploadVideo(url, e)

SpecUpload == Init /\ [][NextUpload]_vars

-----------------------------------------------------------------------------
(* Specification of section generation over the replies of the model       *)

TranscriptEnvs ==
    {[segments |-> n, chunks |-> IF x = "ok" THEN 2 ELSE 0, index |-> x] :
        n \in {0, 2}, x \in {"ok", "fail"}}

NextSections ==
    \/ \E v \in VideoIds, url \in Urls, e \in TranscriptEnvs : ProcessTranscriptCall(v, url, e)
    \/ \E v \in VideoIds, e \in SectionEnvs(Replies) : GenerateSectionsCall(v, e)

SpecSections == Init /\ [][NextSections]_vars

-----------------------------------------------------------------------------
(* Specification of the frame-image endpoint over extracted frames         *)

NextServe ==
    \/ \E url \in PipelineUrls : CreateVideoCall(url)
    \/ \E v \in PipelineIds, d \in Durations : \E e \in ExtractEnvs(d) : ExtractFrames(v, e)
    \/ \E v \in PipelineIds : CleanupVideoFramesCall(v)
    \/ \E p \in ServePaths : ServeFrameImage(p)

SpecServe == Init /\ [][NextServe]_vars

-----------------------------------------------------------------------------
(* Specification of question answering, chat and the processing status     *)

\* An answer of the model longer than ContentLimit characters.
LongAnswer == Repeat("z", ContentLimit + 30)

\* Source documents the chain returns with an answer (the retriever is asked for three;
\* the list of four exercises the slice of ask_question).
SourceLists ==
    {<<>>, <<ChunkShort>>, <<ChunkLong, Chunk200, Chunk201>>,
     <<ChunkShort, Chunk200, ChunkLong, Chunk201>>}

\* What building the chain and calling it can give.
AskEnvs ==
    {[chain |-> FALSE, llm |-> TRUE, answer |-> "", docs |-> <<>>],
     [chain |-> TRUE, llm |-> FALSE, answer |-> "", docs |-> <<>>]}
    \cup {[chain |-> TRUE, llm |-> TRUE, answer |-> a, docs |-> d] :
            a \in {"It covers the setup.", LongAnswer}, d \in SourceLists}

Messages == {"", "what is covered?"}

NextChat ==
    \/ \E url \in PipelineUrls : CreateVideoCall(url)
    \/ \E v \in PipelineIds, url \in PipelineUrls, e \in TranscriptEnvs :
          ProcessTranscriptCall(v, url, e)
    \/ \E v \in PipelineIds, e \in AskEnvs : AskQuestionCall(v, "what is covered?", e)
    \/ \E v \in PipelineIds, m \in Messages, e \in AskEnvs : ChatWithVideo(v, m, e)
    \/ \E v \in PipelineIds : GetLangchainStatus(v)

SpecChat == Init /\ [][NextChat]_vars

-----------------------------------------------------------------------------
(* Specification of the visual-search endpoint over one video with frames, *)
(* an embedding artifact and a transcript index                            *)

SearchTypes == {"visual", "hybrid", "text"}

\* What the Visual Search Engine and the QA chain do during one request.
VisualSearchEnvs ==
    {[search |-> s, ask |-> a] :
        s \in {[load |-> TRUE, encode |-> TRUE, db |-> TRUE],
               [load |-> TRUE, encode |-> FALSE, db |-> TRUE]},
        a \in {[chain |-> TRUE, llm |-> FALSE, answer |-> "", docs |-> <<>>],
               [chain |-> TRUE, llm |-> TRUE, answer |-> "It covers the setup.",
                docs |-> <<ChunkShort>>],
               [chain |-> TRUE, llm |-> TRUE, answer |-> LongAnswer,
                docs |-> <<ChunkLong, Chunk200, Chunk201>>]}}

NextSearch ==
    \/ CreateVideoCall("https://youtu.be/abc123")
    \/ \E e \in FullEnvs(25) : ExtractFrames(1, e)
    \/ \E e \in {g \in GenerateEnvs : g.load /\ g.write = "ok"} :
          GenerateFrameEmbeddingsCall(1, e)
    \/ \E e \in TranscriptEnvs : ProcessTranscriptCall(1, "https://youtu.be/abc123", e)
    \/ \E v \in PipelineIds, t \in SearchTypes, e \in VisualSearchEnvs :
          VisualSearch(v, "a red car", t, 2, e)

SpecSearch == Init /\ [][NextSearch]_vars

-----------------------------------------------------------------------------
(* Specification of section regeneration over uploaded videos              *)

\* Section ids of requests: the ids uploads can hand out and one beyond them.
SectionIds == 1..(MaxSections + 3)

NextRegenerate ==
    \/ \E url \in PipelineUrls, e \in UploadEnvs : UploadVideo(url, e)
    \/ \E sid \in SectionIds, e \in SectionEnvs({"1. Introduction and Overview"}) :
          RegenerateSection(sid, e)

SpecRegenerate == Init /\ [][NextRegenerate]_vars

-----------------------------------------------------------------------------
(* Specification of direct extraction calls with two intervals             *)

Intervals == {10, 20}

\* Media durations for the direct calls: none, a multiple of both intervals, and one
\* that is a multiple of neither.
DirectDurations == {0, 20, 25}

\* Every course of the ffmpeg runs for media of duration d sampled every i seconds, with
\* the download and the probe succeeding; the commit fails only after runs that all
\* wrote their file.
DirectEnvs(d, i) ==
    {[dl |-> "ok", probeOk |-> TRUE, duration |-> d, out |-> o, save |-> "ok"] :
        o \in [1..NumAttempts(d, i) -> {"file", "nofile", "raise"}]}
    \cup {[dl |-> "ok", probeOk |-> TRUE, duration |-> d,
           out |-> [k \in 1..NumAttempts(d, i) |-> "file"], save |-> "fail"]}

NextExtract ==
    \/ \E i \in Intervals, d \in DirectDurations : \E e \in DirectEnvs(d, i) :
          ProcessVideoFramesCall(1, "https://youtu.be/abc123", i, e)
    \/ CleanupVideoFramesCall(1)

SpecExtract == Init /\ [][NextExtract]_vars

-----------------------------------------------------------------------------
(* Specification of cleanup over two videos with frames and stray files    *)

\* Extractions of media lasting d in which every ffmpeg run writes its file and the
\* commit succeeds or fails (a failed commit leaves the files without rows).
CleanupEnvs(d) ==
    {[dl |-> "ok", probeOk |-> TRUE, duration |-> d,
      out |-> [k \in 1..NumAttempts(d, Interval) |-> "file"], save |-> s] :
        s \in {"ok", "fail"}}

NextCleanup ==
    \/ \E url \in Urls : CreateVideoCall(url)
    \/ \E v \in PipelineIds, d \in {15, 25} : \E e \in CleanupEnvs(d) : ExtractFrames(v, e)
    \/ \E v \in VideoIds : CleanupVideoFramesCall(v)

SpecCleanup == Init /\ [][NextCleanup]_vars

-----------------------------------------------------------------------------
(* Specification of the requests that use the embedding model              *)

NextModel ==
    \/ CreateVideoCall("https://youtu.be/abc123")
    \/ \E e \in FullEnvs(25) : ExtractFrames(1, e)
    \/ \E v \in PipelineIds, e \in GenerateEnvs : GenerateEmbeddings(v, e)
    \/ \E v \in PipelineIds, t \in SearchTypes, e \in VisualSearchEnvs :
          VisualSearch(v, "a red car", t, 2, e)

SpecModel == Init /\ [][NextModel]_vars

-----------------------------------------------------------------------------
(* Specification of the requests that call external tools: upload,         *)
(* extraction, embedding generation and chat                               *)

\* Uploads run until one has stored sections; the other requests run at any time.
NextOnce ==
    \/ sections = {} /\ \E url \in PipelineUrls, e \in UploadEnvs : UploadVideo(url, e)
    \/ \E e \in ExtractEnvs(15) : ExtractFrames(1, e)
    \/ \E e \in {g \in GenerateEnvs : g.load /\ g.write = "ok"} : GenerateEmbeddings(1, e)
    \/ \E m \in Messages, e \in AskEnvs : ChatWithVideo(1, m, e)

SpecOnce == Init /\ [][NextOnce]_vars

-----------------------------------------------------------------------------
(* Specification of two server processes generating embeddings for video 1 *)
(* (the encodings of the two requests can differ: an image that one        *)
(* request fails to load the other may load)                               *)

NextEmbedRace ==
    \/ CreateVideoCall("https://youtu.be/abc123")
    \/ \E e \in FullEnvs(25) : ExtractFrames(1, e)
    \/ \E w \in Workers, e \in {g \in GenerateEnvs : g.load /\ g.write = "ok"} :
          EmbedStart(w, 1, e)
    \/ \E w \in Workers : EmbedOpen(w)
    \/ \E w \in Workers : EmbedWrite(w)
    \/ \E w \in Workers : EmbedClose(w)

SpecEmbedRace == Init /\ [][NextEmbedRace]_vars

-----------------------------------------------------------------------------
(* Specification of two server processes extracting the frames of video 1  *)

NextExtractRace ==
    \/ CreateVideoCall("https://youtu.be/abc123")
    \/ \E w \in Workers, v \in PipelineIds : ExtractCheck(w, v)
    \/ \E w \in Workers, dl \in {"ok", "fail"} : ExtractDownload(w, dl)
    \/ \E w \in Workers : \E e \in QuietEnvs(15) : ExtractRun(w, e)
    \/ \E w \in Workers : ExtractSave(w)

SpecExtractRace == Init /\ [][NextExtractRace]_vars

-----------------------------------------------------------------------------
(* Properties of the frame extractor                                       *)

\* C1: an extraction for a video that already has Frame rows returns exactly those rows,
\* downloads nothing, makes no extraction attempt and leaves the Frame table as it was.
C1_ExtractionShortCircuits ==
    [][(/\ last'.op = "extract_frames"
        /\ last'.found
        /\ FramesOf(frames, last'.video_id) # {})
       => (/\ last'.ret = FramesOf(frames, last'.video_id)
           /\ last'.downloads = 0
           /\ last'.attempts = <<>>
           /\ ~last'.raised
           /\ frames' = frames)]_vars

\* A second extraction has just returned the two or more rows the first one created.
C1_Witness ==
    /\ last.op = "extract_frames"
    /\ last.shortcut
    /\ Cardinality(last.ret) >= 2
    /\ last.ret = FramesOf(frames, last.video_id)

\* C2: the lookup returns a frame of the video within the tolerance whose distance to the
\* target is least among the video's frames within the tolerance, and returns none
\* exactly when the video has no frame within the tolerance.
C2_NearestInWindow ==
    last.op = "get_frame_by_timestamp" =>
        LET inRange == {f \in frames :
                          /\ f.video_id = last.video_id
                          /\ Abs(f.timestamp - last.timestamp) <= last.tolerance}
        IN  IF last.found
            THEN /\ last.ret \in inRange
                 /\ \A g \in inRange : Abs(last.ret.timestamp - last.timestamp)
                                         <= Abs(g.timestamp - last.timestamp)
            ELSE inRange = {}

\* A lookup chose between two frames of the video in the window while another video
\* has a frame that is nearer to the target.
C2_Witness ==
    /\ last.op = "get_frame_by_timestamp"
    /\ last.found
    /\ \E g \in frames : /\ g.video_id = last.video_id
                         /\ g # last.ret
                         /\ Abs(g.timestamp - last.timestamp) <= last.tolerance
    /\ \E h \in frames : /\ h.video_id # last.video_id
                         /\ Abs(h.timestamp - last.timestamp)
                              < Abs(last.ret.timestamp - last.timestamp)

-----------------------------------------------------------------------------
(* Properties of embedding generation and visual search                    *)

\* C3: the results of a visual search are in non-increasing order of similarity and are
\* never more than limit (a list has no fewer than zero elements).
C3_RankedAndLimited ==
    last.op = "search_visual_content" =>
        /\ Len(last.ret) <= (IF last.limit > 0 THEN last.limit ELSE 0)
        /\ \A i, j \in 1..Len(last.ret) :
              i < j => last.ret[i].similarity >= last.ret[j].similarity

\* C4: a visual search never raises; without entries to search, or when loading, encoding
\* or ranking fails, it returns the empty list.
C4_SearchNeverFails ==
    last.op = "search_visual_content" =>
        /\ ~last.raised
        /\ (\/ ArtifactEntries(last.video_id) = <<>>
            \/ ~last.env.load
            \/ ~last.env.encode
            \/ ~last.env.db) => last.ret = <<>>

\* A search over a readable artifact failed while resolving the ranked frames.
C4_Witness ==
    /\ last.op = "search_visual_content"
    /\ ArtifactEntries(last.video_id) # <<>>
    /\ ~last.env.db
    /\ last.limit > 0
    /\ last.ret = <<>>

\* C5: after a generation that reports success the artifact holds exactly the entries
\* that generation computed.
C5_ArtifactReplaced ==
    (last.op \in {"generate_frame_embeddings", "generate_embeddings"} /\ last.success)
        => ArtifactEntries(last.video_id) = last.computed

\* C9: generating embeddings for a video without Frame rows gives an error result with
\* processed = 0, the endpoint answers a missing video or a video without frames with
\* HTTP 200 and status "error", and neither touches an artifact.
C9_NoFramesIsAnError ==
    [][/\ (/\ last'.op = "generate_frame_embeddings"
           /\ FramesOf(frames, last'.video_id) = {})
          => (/\ ~last'.success
              /\ last'.processed = 0
              /\ last'.error # None
              /\ artifact' = artifact
              /\ dirs' = dirs)
       /\ (/\ last'.op = "generate_embeddings"
           /\ (VideoById(last'.video_id) = {} \/ FramesOf(frames, last'.video_id) = {}))
          => (/\ last'.http = 200
              /\ last'.status = "error"
              /\ last'.error # None
              /\ artifact' = artifact
              /\ dirs' = dirs)]_vars

\* The service was called for an existing video whose frames had been cleaned up, with
\* an artifact of an earlier generation on disk.
C9_Witness ==
    /\ last.op = "generate_frame_embeddings"
    /\ VideoById(last.video_id) # {}
    /\ last.rows = 0
    /\ ~last.success
    /\ ArtifactEntries(last.video_id) # <<>>

-----------------------------------------------------------------------------
(* Properties of section generation, upload and the registry               *)

\* C6: generate_sections returns three to five sections whose end times increase
\* strictly, the first starting at 0 and the last ending at the assumed duration.
C6_ThreeToFiveSections ==
    last.op = "generate_sections" =>
        /\ Len(last.ret) >= 3
        /\ Len(last.ret) <= 5
        /\ \A i \in 1..(Len(last.ret) - 1) :
              TimeLess(last.ret[i].end_time, last.ret[i + 1].end_time)
        /\ TimeEq(last.ret[1].start_time, Time(0, 1))
        /\ TimeEq(last.ret[Len(last.ret)].end_time, Time(TotalDuration, 1))

\* C7: an upload that finds no transcript gets success = false and segments_count = 0
\* from process_transcript, still answers 200, and adds exactly one Section row for the
\* video: "Video Content" from 0 to 300.
C7_NoTranscriptFallback ==
    [][(/\ last'.op = "upload"
        /\ last'.ran
        /\ last'.env.segments = 0)
       => (/\ ~last'.success
           /\ last'.segments_count = 0
           /\ last'.http = 200
           /\ sections \subseteq sections'
           /\ Cardinality(sections' \ sections) = 1
           /\ \A x \in sections' \ sections :
                 /\ x.video_id = last'.video_id
                 /\ x.title = "Video Content"
                 /\ x.start_time = 0
                 /\ x.end_time = 300)]_vars

\* The scenario's URL was uploaded without a transcript and its fallback row is stored.
C7_Witness ==
    /\ last.op = "upload"
    /\ last.url = "https://youtu.be/abc123"
    /\ last.ran
    /\ last.env.segments = 0
    /\ \E x \in sections : x.video_id = last.video_id /\ x.title = "Video Content"

\* C8: no two Video rows have the same URL, and create_video (called directly or by an
\* upload) for a registered URL returns the existing row and inserts nothing.
C8_CreateOrFetch ==
    [][/\ \A a, b \in videos' : a.url = b.url => a = b
       /\ (last'.op = "create_video" /\ VideoByUrl(last'.url) # {})
          => (/\ ~last'.raised
              /\ last'.ret \in VideoByUrl(last'.url)
              /\ videos' = videos)
       /\ (last'.op = "upload" /\ VideoByUrl(last'.url) # {})
          => (/\ last'.http = 200
              /\ \E x \in VideoByUrl(last'.url) : x.id = last'.video_id
              /\ videos' = videos)]_vars

\* create_video was called for a URL that was registered, with two videos registered.
C8_Witness ==
    /\ last.op = "create_video"
    /\ last.existed
    /\ ~last.inserted
    /\ last.ret \in videos
    /\ Cardinality(videos) = 2

-----------------------------------------------------------------------------
(* Properties of the frame-image endpoint                                  *)

\* The storage directory, as absolute components.
StorageRoot == Cwd \o <<"storage">>

\* C10: a file is served only if its absolute location lies inside the storage directory.
C10_ServedOnlyInsideStorage ==
    (last.op = "serve_frame_image" /\ last.http = 200)
        => /\ Len(last.served) > Len(StorageRoot)
           /\ SubSeq(last.served, 1, Len(StorageRoot)) = StorageRoot

-----------------------------------------------------------------------------
(* Properties of question answering, chat and the processing status        *)

\* C11 (as stated): without an index ask_question returns the canned failure with no
\* sources; a successful answer has at most three sources, each of at most 200 characters.
C11_SourcesWithin200 ==
    last.op = "ask_question" =>
        /\ ~last.indexed => (/\ ~last.success
                             /\ last.answer = CannedAnswer
                             /\ last.sources = <<>>)
        /\ last.success => (/\ Len(last.sources) <= 3
                            /\ \A i \in 1..Len(last.sources) :
                                  Len(last.sources[i].content) <= 200)

\* C11 (amended): without an index ask_question returns the canned failure with no
\* sources; a successful answer has at most three sources, the first three documents of
\* the chain in order, each a chunk of at most 200 characters as it is or the first 200
\* characters of a longer chunk followed by "..." (203 characters).
C11_SourcesCutWithEllipsis ==
    last.op = "ask_question" =>
        /\ ~last.indexed => (/\ ~last.success
                             /\ last.answer = CannedAnswer
                             /\ last.sources = <<>>)
        /\ last.success =>
              (/\ Len(last.sources) <= 3
               /\ Len(last.sources) <= Len(last.env.docs)
               /\ \A i \in 1..Len(last.sources) :
                     LET text == last.env.docs[i].page_content
                         got  == last.sources[i].content
                     IN  IF Len(text) <= 200
                         THEN got = text
                         ELSE /\ Len(got) = 203
                              /\ SubSeq(got, 1, 200) = SubSeq(text, 1, 200)
                              /\ SubSeq(got, 201, 203) = "...")

\* A successful answer whose chain returned four documents, one of them longer than 200
\* characters: three sources came back, one of them cut.
C11_Witness ==
    /\ last.op = "ask_question"
    /\ last.success
    /\ Len(last.env.docs) = 4
    /\ Len(last.sources) = 3
    /\ \E i \in 1..3 : Len(last.env.docs[i].page_content) > 200
                       /\ Len(last.sources[i].content) = 203

\* C12: a process_transcript whose URL has no video id, or whose transcript fetch fails or
\* yields no segments, returns success = false with segments_count = 0 and
\* chunks_count = 0, and leaves the index directories as they were.
C12_NoTranscriptIsAResult ==
    [][(/\ last'.op = "process_transcript"
        /\ (YouTubeId[last'.url] = None \/ last'.env.segments = 0))
       => (/\ ~last'.success
           /\ last'.segments_count = 0
           /\ last'.chunks_count = 0
           /\ chroma' = chroma)]_vars

\* process_transcript ran for a URL without a video id while the transcript API and the
\* index were ready to succeed; the video still has no index directory.
C12_Witness ==
    /\ last.op = "process_transcript"
    /\ YouTubeId[last.url] = None
    /\ last.env.segments > 0
    /\ last.env.index = "ok"
    /\ ~last.success
    /\ chroma[last.video_id] = "none"

\* C13: whenever the status endpoint reports processed = true for a video, an earlier
\* process_transcript call for that video returned success = true.  The index state
\* "indexed" is written by a successful call only and is never removed, so it holds
\* exactly for the videos with such a call.
C13_ProcessedMeansSucceeded ==
    (last.op = "langchain_status" /\ last.processed)
        => chroma[last.video_id] = "indexed"

-----------------------------------------------------------------------------
(* Properties of the frame-extraction endpoint and pipeline                *)

\* C15: a frame-extraction request for a video id that does not exist is answered with
\* HTTP 404 and "Video not found", creates no Frame row and downloads nothing.
C15_MissingVideoIs404 ==
    (last.op = "extract_frames" /\ ~last.found) =>
        /\ last.http = 404
        /\ last.error = "Video not found"
        /\ last.downloads = 0
        /\ FramesOf(frames, last.video_id) = {}

-----------------------------------------------------------------------------
(* Properties of the visual-search endpoint                                *)

-----------------------------------------------------------------------------
(* Properties of section regeneration                                      *)

\* C17: regenerating an existing section sets its title to the first title
\* generate_sections returns for the owning video and changes nothing else: its id,
\* video, start_time and end_time, and every other Section row, stay as they were;
\* regenerating a section id that does not exist answers 404 and changes no row.
C17_OnlyTheTitleChanges ==
    [][last'.op = "regenerate_section" =>
          IF \E s \in sections : s.id = last'.section_id
          THEN \E s \in sections :
                  /\ s.id = last'.section_id
                  /\ LET first == GenerateSections(chroma, s.video_id, last'.env)[1]
                     IN  sections' = (sections \ {s})
                                       \cup {[id |-> s.id, video_id |-> s.video_id,
                                              title |-> first.title,
                                              start_time |-> s.start_time,
                                              end_time |-> s.end_time]}
                  /\ last'.http = 200
          ELSE /\ last'.http = 404
               /\ sections' = sections]_vars

\* A section of a video with further sections was regenerated and carries a title that
\* no upload stores with its time span.
C17_Witness ==
    /\ last.op = "regenerate_section"
    /\ last.found
    /\ \E s \in sections :
          /\ s.id = last.section_id
          /\ s.title = "Introduction and Overview"
          /\ s.start_time = 60
          /\ \E x \in sections : x.video_id = s.video_id /\ x.id # s.id

\* C18: an extraction with interval i > 0 on media of duration d that runs to its end
\* makes one attempt at each time 0, i, 2i, ... below d, in that order, and persists one
\* Frame row for exactly the attempts whose output file exists afterwards, each row with
\* the path and the timestamp of its own attempt.
C18_OneAttemptPerStep ==
    [][(/\ last'.op = "process_video_frames"
        /\ ~last'.shortcut
        /\ ~last'.raised)
       => LET i     == last'.interval
              d     == last'.duration
              v     == last'.video_id
              att   == last'.attempts
              times == {t \in 0..d : t % i = 0 /\ t < d}
              kept  == {k \in 1..Len(att) : (Cwd \o FramePath(v, k - 1, att[k])) \in files'}
              new   == frames' \ frames
          IN  /\ i > 0
              /\ Len(att) = Cardinality(times)
              /\ \A k \in 1..Len(att) : att[k] = (k - 1) * i
              /\ frames \subseteq frames'
              /\ Cardinality(new) = Cardinality(kept)
              /\ {<<f.video_id, f.timestamp, f.path>> : f \in new}
                    = {<<v, att[k], FramePath(v, k - 1, att[k])>> : k \in kept}]_vars

\* An extraction every 10 seconds of 25-second media made its three attempts, the first
\* of which left no file: the rows are those of the attempts at 10 and 20.
C18_Witness ==
    /\ last.op = "process_video_frames"
    /\ ~last.raised
    /\ last.interval = 10
    /\ last.duration = 25
    /\ last.attempts = <<0, 10, 20>>
    /\ {f.timestamp : f \in last.ret} = {10, 20}
    /\ (Cwd \o FramePath(last.video_id, 0, 0)) \notin files

\* C19: after a process_video_frames call that started a download, whether it returned
\* or raised, no file that the call put into the scratch directory is left there.
C19_ScratchIsCleared ==
    (last.op \in {"extract_frames", "process_video_frames"} /\ last.downloads = 1)
        => last.leftover = {}

\* C20: a failure of the download, the probe or an ffmpeg run aborts the call: it raises,
\* no Frame row is added or removed, the images written before the failure are still on
\* disk, and the frame service answers with status "error" and extracted_count 0.
C20_FailureAbortsTheCall ==
    [][(/\ last'.op = "extract_frames"
        /\ last'.found
        /\ ~last'.shortcut
        /\ last'.failure \in {"download", "probe", "ffmpeg"})
       => (/\ last'.raised
           /\ frames' = frames
           /\ last'.written \subseteq files'
           /\ last'.http = 200
           /\ last'.status = "error"
           /\ last'.extracted_count = 0)]_vars

\* The second of three ffmpeg runs raised after the first had written its image: the
\* image is on disk, the video has no Frame row and the service reported an error.
C20_Witness ==
    /\ last.op = "extract_frames"
    /\ last.failure = "ffmpeg"
    /\ last.attempts = <<0, 10>>
    /\ last.written # {}
    /\ last.written \subseteq files
    /\ FramesOf(frames, last.video_id) = {}
    /\ last.status = "error"

-----------------------------------------------------------------------------
(* Properties of cleanup                                                   *)

\* The files of fs inside the per-video frame directory of v.
FilesUnder(fs, v) ==
    {p \in fs : Len(p) > Len(Cwd \o VideoFramesDir(v))
                 /\ SubSeq(p, 1, Len(Cwd \o VideoFramesDir(v))) = Cwd \o VideoFramesDir(v)}

\* C21: after cleanup_video_frames(v) no Frame row of v remains and none of the files
\* those rows pointed to exists; the per-video directory is removed exactly when nothing
\* is left in it; the rows, files and directories of every other video are as before.
C21_CleanupRemovesOnlyTheVideo ==
    [][last'.op = "cleanup_video_frames" =>
        LET v == last'.video_id
        IN  /\ FramesOf(frames', v) = {}
            /\ \A f \in FramesOf(frames, v) : ~Exists(files', f.path)
            /\ VideoFramesDir(v) \in dirs =>
                  (VideoFramesDir(v) \notin dirs' <=> FilesUnder(files', v) = {})
            /\ VideoFramesDir(v) \notin dirs => VideoFramesDir(v) \notin dirs'
            /\ frames' = frames \ FramesOf(frames, v)
            /\ files \ files' \subseteq FilesUnder(files, v)
            /\ files' \subseteq files
            /\ \A w \in VideoIds \ {v} :
                  /\ FilesUnder(files', w) = FilesUnder(files, w)
                  /\ (VideoFramesDir(w) \in dirs') = (VideoFramesDir(w) \in dirs)]_vars

\* C21 witness: a cleanup removed the rows, the files and the directory of one video
\* while another video keeps its rows and files.
C21_Witness ==
    /\ last.op = "cleanup_video_frames"
    /\ last.removed # {}
    /\ VideoFramesDir(last.video_id) \notin dirs
    /\ \A f \in last.removed : ~Exists(files, f.path)
    /\ \E f \in frames : f.video_id # last.video_id /\ Exists(files, f.path)

-----------------------------------------------------------------------------
(* Properties of the embedding loop                                        *)

\* C22: whatever images fail, a generation for a video with frames whose model loads
\* and whose dump succeeds reports success with total_frames = the number of Frame rows
\* and processed = the number of frames whose image exists, loads and encodes, and the
\* artifact then holds exactly one entry per such frame, with its frame_id and timestamp.
C22_PerFrameIsolation ==
    \A v \in PipelineIds, e \in GenerateEnvs :
        (e.load /\ e.write = "ok" /\ FramesOf(frames, v) # {}) =>
            LET r        == GenerateFrameEmbeddings(v, e)
                embedded == {f \in FramesOf(frames, v) :
                                Exists(files, f.path) /\ e.enc[f.id].ok}
                entries  == IF r.artifact[v].state = "ok" THEN r.artifact[v].data
                            ELSE <<>>
            IN  /\ r.success
                /\ r.total_frames = Cardinality(FramesOf(frames, v))
                /\ r.processed = Cardinality(embedded)
                /\ r.processed <= r.total_frames
                /\ Len(entries) = Cardinality(embedded)
                /\ Range(entries) = {[frame_id |-> f.id, timestamp |-> f.timestamp,
                                      embedding |-> e.enc[f.id].vec] : f \in embedded}

\* C23: a search never fails over an artifact that names frames whose rows are gone;
\* every result is a current Frame row with that row's path and timestamp, every result
\* comes from the artifact, and when nothing else fails and the limit covers the whole
\* artifact the results are exactly the artifact's frames that still have a row.
C23_DeletedFramesAreDropped ==
    last.op = "search_visual_content" =>
        LET ids == {x.frame_id : x \in Range(ArtifactEntries(last.video_id))}
        IN  /\ ~last.raised
            /\ \A r \in Range(last.ret) :
                  /\ r.frame_id \in ids
                  /\ \E f \in frames : /\ f.id = r.frame_id
                                       /\ f.path = r.path
                                       /\ f.timestamp = r.timestamp
            /\ (last.env.load /\ last.env.encode /\ last.env.db
                    /\ last.limit >= Len(ArtifactEntries(last.video_id))) =>
                  {r.frame_id : r \in Range(last.ret)} = ids \cap {f.id : f \in frames}

\* C23 witness: a search in which every step works ran over an artifact whose frames
\* have all been deleted, and returned nothing.
C23_Witness ==
    /\ last.op = "search_visual_content"
    /\ last.env.load /\ last.env.encode /\ last.env.db
    /\ last.limit >= Len(ArtifactEntries(last.video_id))
    /\ ArtifactEntries(last.video_id) # <<>>
    /\ \A x \in Range(ArtifactEntries(last.video_id)) :
          ~\E f \in frames : f.id = x.frame_id
    /\ last.ret = <<>>

\* C24: once a generate-embeddings or visual-search request has loaded the embedding
\* model, the next such request of the process does not load it again.
C24_ModelLoadedOnce ==
    [][(/\ last.op \in {"generate_embeddings", "visual_search"}
        /\ last.loads > 0
        /\ last.model # None
        /\ last'.op \in {"generate_embeddings", "visual_search"})
          => last'.loads = 0]_vars

-----------------------------------------------------------------------------
(* Properties of the calls to external tools                               *)

\* C25: no request repeats an external call.  An upload fetches the transcript at most
\* once and calls the language model at most once, and exactly once each where the step
\* is reached, whether or not the call fails; an extraction downloads at most once and
\* tries each sampled timestamp once, in order, stopping at the first failure; an
\* embedding generation encodes each frame of the video at most once; a chat calls the
\* language model at most once.
C25_NoRetry ==
    /\ last.op = "upload" =>
          /\ last.fetches <= 1 /\ last.llm_calls <= 1
          /\ (last.ran /\ YouTubeId[last.url] # None) => last.fetches = 1
          /\ (last.success /\ last.env.chain) => last.llm_calls = 1
          /\ ~last.success => last.llm_calls = 0
    /\ last.op = "extract_frames" =>
          /\ last.downloads <= 1
          /\ Len(last.attempts) <= NumAttempts(last.duration, last.interval)
          /\ \A k \in 1..Len(last.attempts) : last.attempts[k] = (k - 1) * last.interval
          /\ (last.found /\ ~last.shortcut /\ last.failure \in {"download", "probe"}) =>
                (last.downloads = 1 /\ last.attempts = <<>>)
          /\ (~last.found \/ last.shortcut) =>
                (last.downloads = 0 /\ last.attempts = <<>>)
          /\ (last.found /\ ~last.shortcut /\ last.failure \in {"none", "save"}) =>
                (/\ last.downloads = 1
                 /\ Len(last.attempts) = NumAttempts(last.duration, last.interval))
    /\ last.op = "generate_embeddings" =>
          /\ Len(last.encodings) <= last.rows
          /\ \A i, j \in 1..Len(last.encodings) :
                last.encodings[i] = last.encodings[j] => i = j
          /\ \A i \in 1..Len(last.encodings) :
                \E f \in FramesOf(frames, last.video_id) : f.id = last.encodings[i]
    /\ last.op = "chat" =>
          /\ last.llm_calls <= last.asks /\ last.asks <= 1
          /\ (last.http = 200 /\ chroma[last.video_id] # "none" /\ last.env.chain) =>
                last.llm_calls = 1

\* C25 witness: an upload fetched the transcript once, indexed it and made its one call
\* of the language model, which failed.
C25_Witness ==
    /\ last.op = "upload"
    /\ last.success
    /\ last.env.chain /\ ~last.env.llm
    /\ last.fetches = 1
    /\ last.llm_calls = 1

-----------------------------------------------------------------------------
(* Properties of requests that run in different server processes           *)

\* C26: nothing locks the embedding artifact.  When two requests for the same video
\* have both written and returned, the artifact is the complete output of the request
\* that opened the file last if the two writes did not share any time; in every case
\* the file is at least as long as the stream of the later opener and each of its
\* positions holds the slot of one of the two streams or nothing (so whatever it loads
\* as is made of their entries only).
C26_LastWriterWinsAtBest ==
    \A a, b \in Workers :
        (/\ a # b
         /\ inflight[a].pc = "done" /\ inflight[b].pc = "done"
         /\ inflight[a].turn > 0 /\ inflight[b].turn > inflight[a].turn
         /\ inflight[a].video_id = inflight[b].video_id) =>
            LET v  == inflight[a].video_id
                sa == PickleStream(inflight[a].out)
                sb == PickleStream(inflight[b].out)
            IN  /\ (~inflight[a].overlapped /\ ~inflight[b].overlapped) =>
                      /\ embeddingsFile[v].slots = sb
                      /\ artifact[v] = [state |-> "ok", data |-> inflight[b].out]
                /\ embeddingsFile[v].exists
                /\ Len(embeddingsFile[v].slots) >= Len(sb)
                /\ Len(embeddingsFile[v].slots) <= Max({Len(sa), Len(sb)})
                /\ \A i \in 1..Len(embeddingsFile[v].slots) :
                      \/ i <= Len(sa) /\ embeddingsFile[v].slots[i] = sa[i]
                      \/ i <= Len(sb) /\ embeddingsFile[v].slots[i] = sb[i]
                      \/ embeddingsFile[v].slots[i] = HoleSlot

\* C26 witness: two requests for the same video wrote at the same time and returned,
\* and the artifact loads as a list that is the output of neither.
C26_Witness ==
    \E a, b \in Workers :
        /\ a # b
        /\ inflight[a].pc = "done" /\ inflight[b].pc = "done"
        /\ inflight[a].overlapped /\ inflight[b].overlapped
        /\ inflight[a].video_id = inflight[b].video_id
        /\ artifact[inflight[a].video_id].state = "ok"
        /\ artifact[inflight[a].video_id].data # inflight[a].out
        /\ artifact[inflight[a].video_id].data # inflight[b].out

\* C27: however the extract-frames requests of several processes for one video
\* interleave, the media is downloaded at most once in all and the video never has two
\* Frame rows with the same timestamp.
C27_ExtractionIsAtomic ==
    /\ \A a, b \in Workers :
          (a # b /\ inflight[a].video_id = inflight[b].video_id) =>
              inflight[a].downloads + inflight[b].downloads <= 1
    /\ \A f, g \in frames :
          (f.video_id = g.video_id /\ f.timestamp = g.timestamp) => f = g

-----------------------------------------------------------------------------
(* Properties of the upload                                                *)

\* C28: every Section row an upload creates ends after it starts.  After a successful
\* transcript the rows are one per generated section, in order, the i-th (from 0) from
\* 60*i to 60*(i+1) whatever times generate_sections gave; after a failed transcript
\* there is the single row "Video Content" from 0 to 300.
C28_SectionTimes ==
    [][(last'.op = "upload" /\ last'.http = 200) =>
        LET new  == sections' \ sections
            base == Cardinality(sections)
            v    == last'.video_id
            data == GenerateSections(chroma', v, last'.env)
        IN  /\ \A s \in new : s.end_time > s.start_time /\ s.video_id = v
            /\ last'.success =>
                  /\ {s.id : s \in new} = (base + 1)..(base + Len(data))
                  /\ Cardinality(new) = Len(data)
                  /\ \A s \in new :
                        /\ s.start_time = 60 * (s.id - base - 1)
                        /\ s.end_time = 60 * (s.id - base)
                        /\ s.title = data[s.id - base].title
            /\ ~last'.success =>
                  new = {[id |-> base + 1, video_id |-> v, title |-> "Video Content",
                          start_time |-> 0, end_time |-> 300]}]_vars

\* C28 witness: an upload with a transcript stored the three sections that
\* generate_sections returns when the model call fails (0-75, 75-225, 225-300) as
\* 0-60, 60-120 and 120-180.
C28_Witness ==
    /\ last.op = "upload"
    /\ last.success
    /\ last.env.chain /\ ~last.env.llm
    /\ \E s \in sections :
          /\ s.video_id = last.video_id /\ s.title = "Main Content"
          /\ s.start_time = 60 /\ s.end_time = 120
    /\ \E s \in sections :
          /\ s.video_id = last.video_id /\ s.title = "Summary"
          /\ s.start_time = 120 /\ s.end_time = 180

\* C29: an upload of a URL from which no video id can be extracted is answered with
\* HTTP 400; it creates no Video row and no Section row, leaves the transcript indexes
\* alone, and neither fetches a transcript nor calls the language model.
C29_NoVideoIdIs400 ==
    [][(last'.op = "upload" /\ YouTubeId[last'.url] = None) =>
        /\ last'.http = 400
        /\ ~last'.ran
        /\ last'.fetches = 0 /\ last'.llm_calls = 0
        /\ videos' = videos
        /\ sections' = sections
        /\ chroma' = chroma]_vars

\* C29 witness: with a video registered, an upload of a URL without a video id was
\* refused although a transcript would have been there.
C29_Witness ==
    /\ last.op = "upload"
    /\ YouTubeId[last.url] = None
    /\ last.http = 400
    /\ last.env.segments > 0 /\ last.env.index = "ok"
    /\ videos # {}
    /\ \A v \in videos : v.url # last.url

\* C30: an upload of a URL that is already registered is answered with 200 and the id
\* of the existing Video row and adds no Video row; every upload answered with 200 keeps
\* all Section rows as they were and adds at least one new row, all of them to the
\* uploaded video.
C30_ReuploadAppendsSections ==
    [][last'.op = "upload" =>
        /\ VideoByUrl(last'.url) # {} =>
              /\ last'.http = 200
              /\ \E x \in VideoByUrl(last'.url) : x.id = last'.video_id
              /\ videos' = videos
        /\ last'.http = 200 =>
              /\ sections \subseteq sections'
              /\ sections' \ sections # {}
              /\ \A s \in sections' \ sections :
                    /\ s.video_id = last'.video_id
                    /\ \A t \in sections : t.id # s.id]_vars

\* C30 witness: after a second upload of the only registered URL the video has the
\* rows of two batches (two rows that start at 0).
C30_Witness ==
    /\ last.op = "upload"
    /\ last.http = 200
    /\ Cardinality(videos) = 1
    /\ \E s, t \in sections :
          /\ s.id # t.id
          /\ s.video_id = last.video_id /\ t.video_id = last.video_id
          /\ s.start_time = 0 /\ t.start_time = 0

====
